---- MODULE Spec2Model ----
(***************************************************************************)
(* A model of the element-definition toolchain of particle_sim:            *)
(*   - IdMap, the name -> dense id registry          (atom_physics/id.rs)  *)
(*   - Diagnostics, the bag of levelled messages  (io/diagnostics.rs)      *)
(*   - Ast::const_eval for hex colours      (io/parsing/ast_evaluation.rs) *)
(*   - Ast::generate, parse_file, parse_element        (io/parsing*.rs)    *)
(*   - load_set_system, load_set, read_files, hot_reload_set (io.rs)       *)
(* Each subsystem has its own specification over a shared variable list;   *)
(* a specification leaves the variables of the other subsystems alone.     *)
(***************************************************************************)
EXTENDS Integers, Sequences, FiniteSets, TLC

VARIABLES
    \* ---- IdMap harness (id.rs)
    idTy,        \* the id type T::Id of the map under test: "u8" or "u16"
    idmap,       \* IdMap<T>.0 : the IndexMap, a sequence of [name, value]
    lastInsert,  \* the arguments and the result of the latest insert call
    okLog,       \* the successful insert calls so far: [id, name, value]
    nOps,        \* number of insert calls made
    \* ---- Diagnostics harness (io/diagnostics.rs)
    diag,        \* a Diagnostics bag: [diagnostics, errored]
    \* ---- const_eval harness (io/parsing/ast_evaluation.rs)
    evalIn,      \* the Ast node handed to const_eval
    evalOut,     \* None, or Some(what const_eval returned)
    \* ---- the build
    debug_assertions,  \* whether debug assertions are compiled in (cfg(debug_assertions))
    \* ---- the running program (io.rs, player/building.rs, inspector.rs)
    elements,    \* Res<IdMap<Element>> : the installed registry
    world,       \* Res<Atoms> : the atoms, by position
    selected_element,  \* Res<SelectedElement>
    request,     \* None, or Some(the input of the latest load_set_system run)
    hot_reloaded,  \* whether that run called hot_reload_set
    panicked,    \* a panic has ended the program
    nLoads,      \* load_set_system runs on a LoadSet event so far
    nEdits,      \* runs of the other systems so far
    \* ---- one file through the parser (io/parsing.rs, io/parsing/ast_generation.rs)
    fileIn,      \* the text of the file
    generateOut, \* None, or Some(what Ast::generate returned and the diagnostics it left)
    parseOut,    \* None, or Some(the registry and the diagnostics parse_file left)
    nFiles,      \* the files of the set load_set has parsed so far
    reloadIn,    \* the registry and the world hot_reload_set finds, and the registry it is given
    reloadOut,   \* None, or Some(the world and the registry hot_reload_set left)
    \* ---- the tokenizer (io/parsing/tokenizer.rs)
    tokenizer,   \* Tokenizer: the code not yet read and the position reached
    tokens       \* what the calls of Tokenizer::next returned so far

idmapVars == <<idTy, idmap, lastInsert, okLog, nOps>>
diagVars == <<diag>>
evalVars == <<evalIn, evalOut>>
appVars == <<elements, world, selected_element, request, hot_reloaded, panicked, nLoads, nEdits>>
fileVars == <<fileIn, generateOut, parseOut, nFiles>>
reloadVars == <<reloadIn, reloadOut>>
tokenVars == <<tokenizer, tokens>>

vars == <<idTy, idmap, lastInsert, okLog, nOps, diag, evalIn, evalOut, debug_assertions,
          elements, world, selected_element, request, hot_reloaded, panicked, nLoads, nEdits,
          fileIn, generateOut, parseOut, nFiles, reloadIn, reloadOut, tokenizer, tokens>>

\* The variables of a harness that a specification does not use stay as here.
IdleIdMap ==
    /\ idTy = "u8"
    /\ idmap = [base |-> 0, tail |-> <<>>]
    /\ okLog = <<>>
    /\ lastInsert = <<>>
    /\ nOps = 0

IdleDiag == diag = [diagnostics |-> <<>>, errored |-> FALSE]

IdleEval ==
    /\ evalIn = <<>>
    /\ evalOut = <<>>

IdleBuild == debug_assertions = FALSE

IdleFile ==
    /\ fileIn = ""
    /\ generateOut = <<>>
    /\ parseOut = <<>>
    /\ nFiles = 0

IdleReload ==
    /\ reloadIn = <<>>
    /\ reloadOut = <<>>

IdleTokens ==
    /\ tokenizer = <<>>
    /\ tokens = <<>>

IdleApp ==
    /\ elements = [base |-> 0, tail |-> <<>>]
    /\ world = <<>>
    /\ selected_element = 0
    /\ request = <<>>
    /\ hot_reloaded = FALSE
    /\ panicked = FALSE
    /\ nLoads = 0
    /\ nEdits = 0

(***************************************************************************)
(* Option and Result values.                                               *)
(***************************************************************************)
None == <<>>
Some(v) == <<v>>
IsSome(o) == o # <<>>
Unwrap(o) == o[1]

Ok(v) == [ok |-> TRUE, panic |-> FALSE, val |-> v]
Err(e) == [ok |-> FALSE, panic |-> FALSE, err |-> e]
\* The call did not return: a panic unwound it.
Panic == [ok |-> FALSE, panic |-> TRUE]

(***************************************************************************)
(* id.rs : trait Id, id_impl!(u8, u16, u32, usize)                         *)
(***************************************************************************)
U8_MAX == 255
U16_MAX == 65535

\* Id::max_value : Self::MAX as usize
max_value(ty) == IF ty = "u8" THEN U8_MAX ELSE U16_MAX

\* Id::from_usize : `id as Self`, a truncating cast
from_usize(ty, id) == id % (max_value(ty) + 1)

\* Id::to_usize : `self as usize`
to_usize(id) == id

(***************************************************************************)
(* indexmap::IndexMap<String, T>, the insertion-ordered hash map IdMap     *)
(* wraps.  A map is held as [base, tail]: the entries at positions         *)
(* 0..base-1 are (name i |-> value 0) for i = 0..base-1, the run a harness *)
(* fills a map with, and the entries from position base on are the         *)
(* sequence tail of [name, value] records.  A map built by the program     *)
(* from IdMap::new has base = 0, so that tail is the whole IndexMap.       *)
(***************************************************************************)
\* IndexMap::new
im_new == [base |-> 0, tail |-> <<>>]

\* IndexMap::len
im_len(m) == m.base + Len(m.tail)

\* IndexMap::get_index : the entry at a 0-based position
im_get_index(m, i) ==
    IF i < m.base THEN Some([name |-> i, value |-> 0])
    ELSE IF i - m.base + 1 \in DOMAIN m.tail THEN Some(m.tail[i - m.base + 1])
    ELSE None

\* IndexMap::get_index_of : the 0-based position of a key
im_get_index_of(m, name) ==
    IF m.base > 0 /\ name \in 0..(m.base - 1) THEN Some(name)
    ELSE LET hits == {i \in 1..Len(m.tail) : m.tail[i].name = name}
         IN IF hits = {} THEN None ELSE Some(m.base + (CHOOSE i \in hits : TRUE) - 1)

\* VacantEntry::insert : a new entry goes to the end
im_push(m, name, value) ==
    [m EXCEPT !.tail = Append(@, [name |-> name, value |-> value])]

(***************************************************************************)
(* id.rs : IdMap<T>(IndexMap<String, T>)                                   *)
(***************************************************************************)
\* IdMap::new
IdMap_new == im_new

\* A slip in the order of the two checks: the id space is tested before the name.
insert_LimitFirst(self, ty, name, value) ==
    LET len == im_len(self)
    IN IF len >= max_value(ty)
       THEN [map |-> self, res |-> Err("NoMoreIds")]
       ELSE IF IsSome(im_get_index_of(self, name))
            THEN [map |-> self, res |-> Err("DuplicateName")]
            ELSE [map |-> im_push(self, name, value),
                  res |-> Ok(from_usize(ty, len))]

\* An off-by-one in the limit test: `len <= max_value`.
insert_OffByOne(self, ty, name, value) ==
    LET len == im_len(self)
    IN IF IsSome(im_get_index_of(self, name))
       THEN [map |-> self, res |-> Err("DuplicateName")]
       ELSE IF len <= max_value(ty)
            THEN [map |-> im_push(self, name, value),
                  res |-> Ok(from_usize(ty, len))]
            ELSE [map |-> self, res |-> Err("NoMoreIds")]

\* A slip: the id is read from `self.0.len()` after the entry went in.
insert_LenAfter(self, ty, name, value) ==
    LET len == im_len(self)
    IN IF IsSome(im_get_index_of(self, name))
       THEN [map |-> self, res |-> Err("DuplicateName")]
       ELSE IF len < max_value(ty)
            THEN [map |-> im_push(self, name, value),
                  res |-> Ok(from_usize(ty, len + 1))]
            ELSE [map |-> self, res |-> Err("NoMoreIds")]

\* IdMap::insert : the map afterwards and the Result returned
insert(self, ty, name, value) ==
    LET len == im_len(self)
    IN IF IsSome(im_get_index_of(self, name))              \* Entry::Occupied
       THEN [map |-> self, res |-> Err("DuplicateName")]
       ELSE IF len < max_value(ty)                         \* Entry::Vacant
            THEN [map |-> im_push(self, name, value),
                  res |-> Ok(from_usize(ty, len))]
            ELSE [map |-> self, res |-> Err("NoMoreIds")]

\* IdMap::get
get(self, index) ==
    LET e == im_get_index(self, to_usize(index))
    IN IF IsSome(e) THEN Some(e[1].value) ELSE None

\* IdMap::get_full
get_full(self, index) ==
    LET e == im_get_index(self, to_usize(index))
    IN IF IsSome(e) THEN Some(<<e[1].name, e[1].value>>) ELSE None

\* A slip: the position is reported 1-based.
get_full_by_name_OneBased(self, ty, name) ==
    LET at == im_get_index_of(self, name)
    IN IF IsSome(at)
       THEN Some(<<from_usize(ty, at[1] + 1), im_get_index(self, at[1])[1].value>>)
       ELSE None

\* IdMap::get_full_by_name
get_full_by_name(self, ty, name) ==
    LET at == im_get_index_of(self, name)
    IN IF IsSome(at)
       THEN Some(<<from_usize(ty, at[1]), im_get_index(self, at[1])[1].value>>)
       ELSE None

\* IdMap::iter : the (id, name, value) triples, in map order
iter(self, ty) ==
    [i \in 1..im_len(self) |->
        LET e == im_get_index(self, i - 1)[1]
        IN <<from_usize(ty, i - 1), e.name, e.value>>]

(***************************************************************************)
(* io/diagnostics.rs : Level, Position, Diagnostic, Diagnostics            *)
(* A diagnostic is a record with a field kind, the enum variant, and the   *)
(* variant's payload; level is the Diagnostic::level of its type.          *)
(***************************************************************************)
\* A slip: a file that cannot be opened counted as an error.
ReadFilesError_level_OpenIsError(d) ==
    IF d.kind \in {"ReadFile"} THEN "Warn" ELSE "Error"

\* impl Diagnostic for ReadFilesError (io.rs)
ReadFilesError_level(d) ==
    IF d.kind \in {"OpenFile", "ReadFile"} THEN "Warn" ELSE "Error"

\* impl Diagnostic for ParseError (parsing.rs)
ParseError_level(d) == "Error"

\* A slip: the element limit counted as an error.
ElementError_level_LimitIsError(d) ==
    IF d.kind \in {"DoubleDefineVariable", "UnknownVariable", "DoubleDefineElement"}
    THEN "Warn"
    ELSE "Error"

\* A slip: a double definition of an element counted as an error.
ElementError_level_DoubleDefineIsError(d) ==
    IF d.kind \in {"DoubleDefineVariable", "UnknownVariable", "ElementLimitReached"}
    THEN "Warn"
    ELSE "Error"

\* impl Diagnostic for ElementError (parsing.rs)
ElementError_level(d) ==
    IF d.kind \in {"DoubleDefineVariable", "UnknownVariable",
                   "DoubleDefineElement", "ElementLimitReached"}
    THEN "Warn"
    ELSE "Error"

\* impl Diagnostic for EvalError (ast_evaluation.rs)
EvalError_level(d) == "Error"

\* impl Diagnostic for GenerateErrorKind (ast_generation.rs)
GenerateErrorKind_level(d) == "Error"

ReadFilesErrorKinds == {"ReadDirectory", "OpenFile", "ReadFile"}
ParseErrorKinds == {"UnexpectedBlock", "UnexpectedIdent", "UnexpectedValue"}
ElementErrorKinds == {"UnexpectedAstKind", "VariableType", "DoubleDefineVariable",
                      "UnknownVariable", "DoubleDefineElement", "ElementLimitReached"}
EvalErrorKinds == {"NotConst", "InvalidHexDigit", "InvalidHexColorLen"}
GenerateErrorKinds == {"Nom", "WrongChar", "ExpectedIdentifier",
                       "ExpectedKeywordElement", "ExpectedEof"}

\* Diagnostic::level, dispatched on the type of the boxed diagnostic
level(d) ==
    IF d.kind \in ReadFilesErrorKinds THEN ReadFilesError_level(d)
    ELSE IF d.kind \in ParseErrorKinds THEN ParseError_level(d)
    ELSE IF d.kind \in ElementErrorKinds THEN ElementError_level(d)
    ELSE IF d.kind \in EvalErrorKinds THEN EvalError_level(d)
    ELSE GenerateErrorKind_level(d)

\* Diagnostics::init
Diagnostics_init == [diagnostics |-> <<>>, errored |-> FALSE]

\* A slip: `=` for `|=`, so that a later Warn clears the flag.
add_Assign(self, position, diagnostic) ==
    [diagnostics |-> Append(self.diagnostics, <<Some(position), diagnostic>>),
     errored |-> level(diagnostic) = "Error"]

\* Diagnostics::add
add(self, position, diagnostic) ==
    [diagnostics |-> Append(self.diagnostics, <<Some(position), diagnostic>>),
     errored |-> self.errored \/ level(diagnostic) = "Error"]

\* Diagnostics::add_positioned
add_positioned(self, val) == add(self, val.position, val.object)

\* Diagnostics::add_unpositioned
add_unpositioned(self, diagnostic) ==
    [diagnostics |-> Append(self.diagnostics, <<None, diagnostic>>),
     errored |-> self.errored \/ level(diagnostic) = "Error"]

\* Diagnostics::has_errored
has_errored(self) == self.errored

\* Position::position
Positioned(object, position) == [object |-> object, position |-> position]

(***************************************************************************)
(* The IdMap harness: a map of one id type, empty or filled by the run     *)
(* insert(0, 0), insert(1, 0), ..., insert(k - 1, 0), then driven by       *)
(* insert calls with arbitrary names.                                      *)
(***************************************************************************)
MaxLowName == 1      \* input names 0..MaxLowName: the names of the earliest prefilled entries
MaxFresh == 2        \* input names that no prefilled map holds
MaxGap == 1          \* a map starts empty or with max_value - MaxGap .. max_value entries
MaxOps == 3          \* insert calls per run

\* The map the run insert(0, 0), ..., insert(k - 1, 0) leaves, for
\* k <= max_value: every call finds its name vacant and len < max_value, so
\* entry i is (i |-> 0) under id i.
Filled(k) == [base |-> k, tail |-> <<>>]

Prefills(ty) ==
    {0} \cup {k \in (max_value(ty) - MaxGap)..max_value(ty) : k >= 0}

InputNames(ty) ==
    (0..MaxLowName) \cup (max_value(ty)..(max_value(ty) + MaxFresh - 1))

InitIdMapOf(types) ==
    /\ idTy \in types
    /\ \E k \in Prefills(idTy) : idmap = Filled(k)
    /\ okLog = <<>>
    /\ lastInsert = None
    /\ nOps = 0
    /\ IdleDiag
    /\ IdleEval
    /\ IdleBuild
    /\ IdleApp
    /\ IdleFile
    /\ IdleReload
    /\ IdleTokens

\* One call of IdMap::insert with an arbitrary name.  IdMap never looks into
\* the value (T is opaque to it), so each call passes a value of its own: the
\* number of the call (prefilled entries hold 0).
Insert ==
    /\ nOps < MaxOps
    /\ \E name \in InputNames(idTy) :
          LET value == nOps + 1
              r == insert(idmap, idTy, name, value)
          IN /\ idmap' = r.map
             /\ lastInsert' = Some([name |-> name, value |-> value, res |-> r.res])
             /\ okLog' = IF r.res.ok
                         THEN Append(okLog, [id |-> r.res.val, name |-> name, value |-> value])
                         ELSE okLog
    /\ nOps' = nOps + 1
    /\ UNCHANGED <<idTy, diagVars, evalVars, debug_assertions, appVars, fileVars, reloadVars, tokenVars>>

InitIdMap == InitIdMapOf({"u8"})
InitIdMapWide == InitIdMapOf({"u8", "u16"})

NextIdMap == Insert

SpecIdMap == InitIdMap /\ [][NextIdMap]_vars
SpecIdMapWide == InitIdMapWide /\ [][NextIdMap]_vars

\* An insert call has just been made; its record is lastInsert'[1].
InsertStep == nOps' = nOps + 1

\* The successful calls of the run that filled the map at the start.
PrefillLog(k) == [i \in 1..k |-> [id |-> i - 1, name |-> i - 1, value |-> 0]]

\* Every successful insert call on the map so far, in call order.
SuccessLog == PrefillLog(idmap.base) \o okLog

(***************************************************************************)
(* C1: insert with a name that is already present returns                  *)
(* Err(DuplicateName), also when the map is full, and leaves the map as it *)
(* was: same entries in the same order under the same ids, and the name    *)
(* still resolves to the id and value of its first successful insert.      *)
(***************************************************************************)
C1_DuplicateRejected ==
    [][(InsertStep /\ IsSome(im_get_index_of(idmap, lastInsert'[1].name))) =>
          LET name == lastInsert'[1].name
          IN /\ lastInsert'[1].res = Err("DuplicateName")
             /\ idmap' = idmap
             /\ okLog' = okLog
             /\ IF idmap.base > 0 /\ name \in 0..(idmap.base - 1)
                THEN get_full_by_name(idmap', idTy, name) = Some(<<name, 0>>)
                ELSE \E k \in 1..Len(okLog) :
                        /\ okLog[k].name = name
                        /\ \A j \in 1..(k - 1) : okLog[j].name # name
                        /\ get_full_by_name(idmap', idTy, name)
                              = Some(<<okLog[k].id, okLog[k].value>>)
      ]_vars

\* A duplicate insert was rejected on a full map.
C1_Witness ==
    /\ IsSome(lastInsert)
    /\ lastInsert[1].res = Err("DuplicateName")
    /\ im_len(idmap) = max_value(idTy)

(***************************************************************************)
(* C2: insert of a name that is not present returns Err(NoMoreIds) exactly *)
(* when the map already holds 255 (u8) or 65535 (u16) entries, and then    *)
(* the map is unchanged; with fewer entries the insert succeeds.           *)
(***************************************************************************)
C2_NoMoreIdsExactlyAtMax ==
    [][(InsertStep /\ ~IsSome(im_get_index_of(idmap, lastInsert'[1].name))) =>
          LET full == im_len(idmap) = (IF idTy = "u8" THEN 255 ELSE 65535)
          IN /\ (lastInsert'[1].res = Err("NoMoreIds")) <=> full
             /\ full => idmap' = idmap
             /\ ~full => /\ lastInsert'[1].res.ok
                         /\ im_len(idmap') = im_len(idmap) + 1
                         /\ im_get_index(idmap', im_len(idmap)) =
                               Some([name |-> lastInsert'[1].name,
                                     value |-> lastInsert'[1].value])
      ]_vars

\* A new name was refused on a full u16 map.
C2_Witness ==
    /\ idTy = "u16"
    /\ IsSome(lastInsert)
    /\ lastInsert[1].res = Err("NoMoreIds")
    /\ im_len(idmap) = 65535

(***************************************************************************)
(* C3: the k-th successful insert returned id k-1, whatever failing calls  *)
(* came in between, and iter() yields (0,name_0,v_0), (1,name_1,v_1), ...  *)
(* in the order of the successful inserts.                                 *)
(***************************************************************************)
C3_IdsInInsertionOrder ==
    /\ \A k \in 1..Len(SuccessLog) : SuccessLog[k].id = k - 1
    /\ iter(idmap, idTy) =
          [k \in 1..Len(SuccessLog) |-> <<k - 1, SuccessLog[k].name, SuccessLog[k].value>>]

\* Three calls, two of them successful, the last one among these: a failing
\* call came between two successful ones.
C3_Witness ==
    /\ nOps = 3
    /\ IsSome(lastInsert)
    /\ lastInsert[1].res.ok
    /\ Len(okLog) = 2

(***************************************************************************)
(* C4: the name/id mapping is a bijection: get_full(id) = (name, v) iff    *)
(* get_full_by_name(name) = (id, v); get(id) is Some exactly for the ids   *)
(* 0..len-1; every name whose insert succeeded is found by id and by name. *)
(***************************************************************************)
C4_Bijection ==
    /\ \A id \in 0..max_value(idTy) :
          LET e == get_full(idmap, id)
          IN /\ IsSome(get(idmap, id)) <=> id < im_len(idmap)
             /\ IsSome(e) <=> IsSome(get(idmap, id))
             /\ IsSome(e) => /\ get(idmap, id) = Some(e[1][2])
                             /\ get_full_by_name(idmap, idTy, e[1][1]) = Some(<<id, e[1][2]>>)
    /\ \A name \in InputNames(idTy) \cup (0..max_value(idTy)) :
          LET e == get_full_by_name(idmap, idTy, name)
          IN IsSome(e) => get_full(idmap, e[1][1]) = Some(<<name, e[1][2]>>)
    /\ \A k \in 1..Len(SuccessLog) :
          /\ get_full(idmap, SuccessLog[k].id)
                = Some(<<SuccessLog[k].name, SuccessLog[k].value>>)
          /\ get_full_by_name(idmap, idTy, SuccessLog[k].name)
                = Some(<<SuccessLog[k].id, SuccessLog[k].value>>)

\* The map is full and its last entry came from a harness insert.
C4_Witness ==
    /\ im_len(idmap) = max_value(idTy)
    /\ IsSome(lastInsert)
    /\ lastInsert[1].res = Ok(max_value(idTy) - 1)

(***************************************************************************)
(* The Diagnostics harness: a bag from Diagnostics::init, to which         *)
(* diagnostics of every kind are added through the three add methods.      *)
(***************************************************************************)
MaxDiags == 2        \* diagnostics added per run

AllKinds ==
    ReadFilesErrorKinds \cup ParseErrorKinds \cup ElementErrorKinds
        \cup EvalErrorKinds \cup GenerateErrorKinds

HarnessPosition == [file |-> 0, offset |-> 0, line |-> 1, length |-> 1]

InitDiag ==
    /\ diag = Diagnostics_init
    /\ IdleIdMap
    /\ IdleEval
    /\ IdleBuild
    /\ IdleApp
    /\ IdleFile
    /\ IdleReload
    /\ IdleTokens

Add ==
    /\ Len(diag.diagnostics) < MaxDiags
    /\ \E k \in AllKinds : diag' = add(diag, HarnessPosition, [kind |-> k])
    /\ UNCHANGED <<idmapVars, evalVars, debug_assertions, appVars, fileVars, reloadVars, tokenVars>>

AddPositioned ==
    /\ Len(diag.diagnostics) < MaxDiags
    /\ \E k \in AllKinds :
          diag' = add_positioned(diag, Positioned([kind |-> k], HarnessPosition))
    /\ UNCHANGED <<idmapVars, evalVars, debug_assertions, appVars, fileVars, reloadVars, tokenVars>>

AddUnpositioned ==
    /\ Len(diag.diagnostics) < MaxDiags
    /\ \E k \in AllKinds : diag' = add_unpositioned(diag, [kind |-> k])
    /\ UNCHANGED <<idmapVars, evalVars, debug_assertions, appVars, fileVars, reloadVars, tokenVars>>

NextDiag == Add \/ AddPositioned \/ AddUnpositioned

SpecDiag == InitDiag /\ [][NextDiag]_vars

\* The levels of the diagnostics a bag received, in order.
LevelsAdded(self) == [i \in 1..Len(self.diagnostics) |-> level(self.diagnostics[i][2])]

(***************************************************************************)
(* C5: has_errored() is false after init(); after any sequence of add,     *)
(* add_positioned and add_unpositioned calls it is true iff one of the     *)
(* diagnostics added had level Error (only Warn: false); once true it      *)
(* never is false again.                                                   *)
(***************************************************************************)
C5_ErroredIffErrorAdded ==
    /\ [](has_errored(diag) <=> \E i \in 1..Len(diag.diagnostics) :
                                   LevelsAdded(diag)[i] = "Error")
    /\ [][has_errored(diag) => has_errored(diag')]_vars

\* An Error was added first and a Warn after it.
C5_Witness ==
    /\ Len(diag.diagnostics) = 2
    /\ LevelsAdded(diag) = <<"Error", "Warn">>
    /\ has_errored(diag)

(***************************************************************************)
(* Characters and strings.  A char is a one-character string for ASCII and *)
(* a name such as "U+00E9" otherwise.  The digits of a hex colour are held *)
(* run-length encoded, as a sequence of [ch, n] (n >= 1 times the char     *)
(* ch), so that a colour of 65536 digits is a value of two runs.           *)
(***************************************************************************)
Digits == "0123456789"
UpperCase == "ABCDEFGHIJKLMNOPQRSTUVWXYZ"
LowerCase == "abcdefghijklmnopqrstuvwxyz"

IndexIn(str, ch) ==
    IF \E i \in 1..Len(str) : SubSeq(str, i, i) = ch
    THEN CHOOSE i \in 1..Len(str) : SubSeq(str, i, i) = ch
    ELSE 0

\* `ch as u32`
Ord(ch) ==
    CASE IndexIn(Digits, ch) > 0 -> 47 + IndexIn(Digits, ch)
      [] IndexIn(UpperCase, ch) > 0 -> 64 + IndexIn(UpperCase, ch)
      [] IndexIn(LowerCase, ch) > 0 -> 96 + IndexIn(LowerCase, ch)
      [] ch = "\t" -> 9
      [] ch = "\n" -> 10
      [] ch = "\r" -> 13
      [] ch = " " -> 32
      [] ch = "#" -> 35
      [] ch = "(" -> 40
      [] ch = ")" -> 41
      [] ch = "-" -> 45
      [] ch = "=" -> 61
      [] ch = "[" -> 91
      [] ch = "]" -> 93
      [] ch = "_" -> 95
      [] ch = "{" -> 123
      [] ch = "}" -> 125
      [] ch = "U+00E9" -> 233

\* char::len_utf8
len_utf8(ch) == IF Ord(ch) < 128 THEN 1 ELSE IF Ord(ch) < 2048 THEN 2 ELSE 3

\* The UTF-8 bytes of a char.
utf8(ch) ==
    IF Ord(ch) < 128 THEN <<Ord(ch)>>
    ELSE <<192 + (Ord(ch) \div 64), 128 + (Ord(ch) % 64)>>

\* The run-length form of a string given char by char.
Runs(str) == [i \in 1..Len(str) |-> [ch |-> SubSeq(str, i, i), n |-> 1]]

RECURSIVE str_len(_)
\* str::len : the length in bytes
str_len(s) ==
    IF s = <<>> THEN 0 ELSE s[1].n * len_utf8(s[1].ch) + str_len(Tail(s))

RECURSIVE as_bytes(_)
\* str::as_bytes, for the strings `match *c.as_bytes()` tells apart (at most
\* 8 bytes: a run longer than that falls under the `_` arm whatever follows)
as_bytes(s) ==
    IF s = <<>> THEN <<>>
    ELSE LET one == utf8(s[1].ch)
             run == [i \in 1..(s[1].n * Len(one)) |-> one[((i - 1) % Len(one)) + 1]]
         IN run \o as_bytes(Tail(s))

(***************************************************************************)
(* terrain/color.rs : AtomColor                                            *)
(***************************************************************************)
\* AtomColor::from_parts
from_parts(r, g, b, a) == [r |-> r, g |-> g, b |-> b, a |-> a]

\* AtomColor::from_u32 : 0xrrggbbaa
from_u32(val) ==
    from_parts((val \div 16777216) % 256, (val \div 65536) % 256, (val \div 256) % 256, val % 256)

\* AtomColor::INVISIBLE
INVISIBLE == from_u32(0)

\* AtomColor::WHITE : from_u32(0xFF_FF_FF_FF), its four bytes given apart
WHITE == from_parts(255, 255, 255, 255)

\* AtomColor::from_grey : called by const_eval, defined in no file of src/;
\* greyscale from the byte, alpha implicit 0xFF
from_grey(y) == from_parts(y, y, y, 255)

(***************************************************************************)
(* value.rs : ValueUntyped                                                 *)
(***************************************************************************)
Color(c) == [type |-> "Color", color |-> c]
EnumVariant(v) == [type |-> "EnumVariant", name |-> v]
Unit == [type |-> "Unit"]

(***************************************************************************)
(* io/diagnostics.rs : Position                                            *)
(***************************************************************************)
\* impl From<Span> for Position : a span of `len` bytes at (file, offset, line)
Position_from(file, offset, line, len) ==
    [file |-> file, offset |-> offset, line |-> line,
     length |-> IF len <= U16_MAX THEN len ELSE U16_MAX]

\* Position::char_inline.  debug_assert!(pos < self.length as usize) is
\* compiled in with debug assertions only: Panic stands for its failure.
char_inline(self, pos, debug) ==
    IF debug /\ ~(pos < self.length)
    THEN Panic
    ELSE Ok([self EXCEPT !.offset = self.offset + pos, !.length = 1])

(***************************************************************************)
(* io/parsing.rs : Ast                                                     *)
(***************************************************************************)
\* The Positioned payload of Block, Ident and HexColor is a vector of nodes, a
\* name and a run-length encoded string: its `object` is held in a field named
\* after the variant (block, ident, hex), its `position` beside it.
Ast_Block(b) == [type |-> "Block", block |-> b.object, position |-> b.position]
Ast_Ident(i) == [type |-> "Ident", ident |-> i.object, position |-> i.position]
Ast_HexColor(c) == [type |-> "HexColor", hex |-> c.object, position |-> c.position]
Ast_Element(name, body) == [type |-> "Element", name |-> name, body |-> body]
Ast_VariableAssign(variable, value) ==
    [type |-> "VariableAssign", variable |-> variable, value |-> value]

(***************************************************************************)
(* io/parsing/ast_evaluation.rs : Ast::const_eval                          *)
(***************************************************************************)
\* matches!(digit, 0..=9 | a..=f | A..=F) on chars
is_hex_digit(ch) ==
    \/ Ord("0") <= Ord(ch) /\ Ord(ch) <= Ord("9")
    \/ Ord("a") <= Ord(ch) /\ Ord(ch) <= Ord("f")
    \/ Ord("A") <= Ord(ch) /\ Ord(ch) <= Ord("F")

\* A slip: the upper-case arm lacks `+ 0xA`.
map_UpperNoOffset(v) ==
    IF Ord("0") <= v /\ v <= Ord("9") THEN v - Ord("0")
    ELSE IF Ord("a") <= v /\ v <= Ord("f") THEN v - Ord("a") + 10
    ELSE IF Ord("A") <= v /\ v <= Ord("F") THEN v - Ord("A")
    ELSE 0

\* fn map(v: u8) -> u8, local to const_eval
map(v) ==
    IF Ord("0") <= v /\ v <= Ord("9") THEN v - Ord("0")
    ELSE IF Ord("a") <= v /\ v <= Ord("f") THEN v - Ord("a") + 10
    ELSE IF Ord("A") <= v /\ v <= Ord("F") THEN v - Ord("A") + 10
    ELSE 0

\* `v << 4` on u8: the high bits are shifted out
shl4(v) == (v * 16) % 256

\* `a | b` on u8
bitor(a, b) ==
    LET bit(x, i) == (x \div (2 ^ i)) % 2
        or(i) == IF bit(a, i) = 1 \/ bit(b, i) = 1 THEN 2 ^ i ELSE 0
    IN or(0) + or(1) + or(2) + or(3) + or(4) + or(5) + or(6) + or(7)

\* The byte offset `pos` at which the loop over c.char_indices() returns:
\* that of the first char that is no hex digit (None: the loop runs through).
first_invalid(s) ==
    LET bad == {k \in 1..Len(s) : ~is_hex_digit(s[k].ch)}
    IN IF bad = {} THEN None
       ELSE LET k == CHOOSE k \in bad : \A j \in bad : k <= j
            IN Some(str_len(SubSeq(s, 1, k - 1)))

\* A slip: the six-digit arm takes the two digits of each byte in the wrong order.
hex_match_SixSwapped(c) ==
    LET len == str_len(c.hex)
        y == as_bytes(c.hex)
    IN IF len = 1 THEN Ok(Color(from_grey(map(y[1]))))
       ELSE IF len = 2 THEN Ok(Color(from_grey(bitor(shl4(map(y[1])), map(y[2])))))
       ELSE IF len = 3 THEN
           Ok(Color(from_parts(shl4(map(y[1])), shl4(map(y[2])), shl4(map(y[3])), 255)))
       ELSE IF len = 4 THEN
           Ok(Color(from_parts(shl4(map(y[1])), shl4(map(y[2])), shl4(map(y[3])),
                               shl4(map(y[4])))))
       ELSE IF len = 6 THEN
           Ok(Color(from_parts(bitor(shl4(map(y[2])), map(y[1])),
                               bitor(shl4(map(y[4])), map(y[3])),
                               bitor(shl4(map(y[6])), map(y[5])),
                               255)))
       ELSE IF len = 8 THEN
           Ok(Color(from_parts(bitor(shl4(map(y[1])), map(y[2])),
                               bitor(shl4(map(y[3])), map(y[4])),
                               bitor(shl4(map(y[5])), map(y[6])),
                               bitor(shl4(map(y[7])), map(y[8])))))
       ELSE Err(Positioned([kind |-> "InvalidHexColorLen"], c.position))

\* `match *c.as_bytes() { ... }`
hex_match(c) ==
    LET len == str_len(c.hex)
        y == as_bytes(c.hex)
    IN IF len = 1 THEN Ok(Color(from_grey(map(y[1]))))
       ELSE IF len = 2 THEN Ok(Color(from_grey(bitor(shl4(map(y[1])), map(y[2])))))
       ELSE IF len = 3 THEN
           Ok(Color(from_parts(shl4(map(y[1])), shl4(map(y[2])), shl4(map(y[3])), 255)))
       ELSE IF len = 4 THEN
           Ok(Color(from_parts(shl4(map(y[1])), shl4(map(y[2])), shl4(map(y[3])),
                               shl4(map(y[4])))))
       ELSE IF len = 6 THEN
           Ok(Color(from_parts(bitor(shl4(map(y[1])), map(y[2])),
                               bitor(shl4(map(y[3])), map(y[4])),
                               bitor(shl4(map(y[5])), map(y[6])),
                               255)))
       ELSE IF len = 8 THEN
           Ok(Color(from_parts(bitor(shl4(map(y[1])), map(y[2])),
                               bitor(shl4(map(y[3])), map(y[4])),
                               bitor(shl4(map(y[5])), map(y[6])),
                               bitor(shl4(map(y[7])), map(y[8])))))
       ELSE Err(Positioned([kind |-> "InvalidHexColorLen"], c.position))

\* The Ast::HexColor arm of const_eval
const_eval_hex(c, debug) ==
    LET bad == first_invalid(c.hex)
    IN IF IsSome(bad)
       THEN LET at == char_inline(c.position, bad[1], debug)
            IN IF at.panic THEN Panic
               ELSE Err(Positioned([kind |-> "InvalidHexDigit"], at.val))
       ELSE hex_match(c)

\* A slip: a block with one child is taken for an empty one.
const_eval_OneChildIsUnit(self, debug) ==
    CASE self.type = "Block" ->
            IF Len(self.block) <= 1 THEN Ok(Unit)
            ELSE Err(Positioned([kind |-> "NotConst"], self.position))
      [] self.type = "Ident" -> Ok(EnumVariant(self.ident))
      [] self.type = "HexColor" -> const_eval_hex(self, debug)
      [] self.type = "Element" -> Ok(Unit)
      [] self.type = "VariableAssign" -> Ok(Unit)

RECURSIVE const_eval(_, _)
\* Ast::const_eval
const_eval(self, debug) ==
    CASE self.type = "Block" ->
            IF Len(self.block) = 0 THEN Ok(Unit)
            ELSE IF Len(self.block) = 1 THEN const_eval(self.block[1], debug)
            ELSE Err(Positioned([kind |-> "NotConst"], self.position))
      [] self.type = "Ident" -> Ok(EnumVariant(self.ident))
      [] self.type = "HexColor" -> const_eval_hex(self, debug)
      [] self.type = "Element" -> Ok(Unit)
      [] self.type = "VariableAssign" -> Ok(Unit)

(***************************************************************************)
(* const_eval applied to the nodes the parser can build.  hex_color takes  *)
(* alphanumeric1 after the '#': a HexColor holds one or more ASCII letters *)
(* and digits, and its position is that of the span (From<Span>).          *)
(***************************************************************************)
MaxHexLen == 9
MaxHexOver == 1

HexChars == {SubSeq("0123456789abcdefABCDEF", i, i) : i \in 1..22}
OtherChars == {"g", "G", "z", "Z"}
HexAlphabet == HexChars \cup OtherChars

\* a b a b ... of n chars
Alternating(a, b, n) == [i \in 1..n |-> [ch |-> IF i % 2 = 1 THEN a ELSE b, n |-> 1]]

\* n chars, all h but the k-th, which is g
OneOther(h, g, k, n) ==
    (IF k > 1 THEN <<[ch |-> h, n |-> k - 1]>> ELSE <<>>)
    \o <<[ch |-> g, n |-> 1]>>
    \o (IF k < n THEN <<[ch |-> h, n |-> n - k]>> ELSE <<>>)

LongLens == (U16_MAX - MaxHexOver)..(U16_MAX + MaxHexOver)

HexStrings ==
    {Alternating(a, b, n) : a \in HexAlphabet, b \in HexAlphabet, n \in 1..MaxHexLen}
    \cup {OneOther(h, g, k, n) : h \in {"0", "F"}, g \in OtherChars,
                                 k \in 1..MaxHexLen, n \in 1..MaxHexLen}
    \cup {Runs(str) : str \in {"abc", "abcd", "ABC", "f09E", "1aB2c3D4", "1ab2c3d4",
                               "09afAF", "09afaf", "0123456", "12345", "fedcba987"}}
    \cup {<<[ch |-> "0", n |-> l]>> : l \in LongLens}
    \cup {<<[ch |-> "0", n |-> l], [ch |-> "g", n |-> 1]>> : l \in LongLens}
    \cup {<<[ch |-> "0", n |-> l], [ch |-> "g", n |-> 1], [ch |-> "0", n |-> 1]>> : l \in LongLens}
    \cup {<<[ch |-> "g", n |-> 1], [ch |-> "0", n |-> l]>> : l \in LongLens}

HarnessOffsets == {1, 40}

HexColors ==
    {Ast_HexColor(Positioned(str, Position_from(0, offset, 1, str_len(str)))) :
        str \in {s \in HexStrings : \A k \in 1..Len(s) : s[k].n >= 1}, offset \in HarnessOffsets}

Idents ==
    {Ast_Ident(Positioned(name, Position_from(0, 1, 1, Len(name)))) : name \in {"Never", "x1"}}

Blocks ==
    {Ast_Block(Positioned(body, Position_from(0, 0, 1, 12))) :
        body \in {<<>>} \cup {<<a>> : a \in Idents}
                 \cup {<<a, b>> : a \in Idents, b \in Idents}
                 \cup {<<Ast_HexColor(Positioned(Runs(str), Position_from(0, 2, 1, Len(str))))>> :
                          str \in {"abc", "xyz"}}}

MaxNesting == 3

RECURSIVE Nested(_, _)
\* a inside `depth` blocks of one child each
Nested(a, depth) ==
    IF depth = 0 THEN a
    ELSE Ast_Block(Positioned(<<Nested(a, depth - 1)>>, Position_from(0, 4 - depth, 1, 20 + depth)))

\* hex colours whose evaluation fails, the last one with a panic under debug assertions
FailingHexColors ==
    {Ast_HexColor(Positioned(str, Position_from(0, 2, 1, str_len(str)))) :
        str \in {Runs("xyz"), Runs("12345"), <<[ch |-> "0", n |-> U16_MAX], [ch |-> "g", n |-> 1]>>}}

\* blocks of two and three children, children that cannot be evaluated among them
ManyChildBlocks ==
    {Ast_Block(Positioned(body, Position_from(0, 5, 2, 30))) :
        body \in {<<a, b>> : a \in FailingHexColors, b \in FailingHexColors \cup Idents}
                 \cup {<<a, b, a>> : a \in Idents, b \in FailingHexColors}}

NestedBlocks ==
    {Nested(a, depth) :
        a \in Idents \cup FailingHexColors \cup ManyChildBlocks
              \cup {Ast_Block(Positioned(<<>>, Position_from(0, 5, 2, 2))),
                    Ast_HexColor(Positioned(Runs("abc"), Position_from(0, 6, 2, 3))),
                    Ast_VariableAssign(Positioned("color", Position_from(0, 5, 2, 5)),
                                       Ast_HexColor(Positioned(Runs("abc"),
                                                               Position_from(0, 14, 2, 3))))},
        depth \in 1..MaxNesting}

EvalInputs ==
    HexColors \cup Idents \cup Blocks \cup ManyChildBlocks \cup NestedBlocks
    \cup {Ast_Block(Positioned(<<b>>, Position_from(0, 0, 1, 14))) : b \in Blocks}
    \cup {Ast_Element(Positioned("Foo", Position_from(0, 8, 1, 3)),
                       Positioned(b.block, Position_from(0, 12, 1, 12))) : b \in Blocks}
    \cup {Ast_VariableAssign(Positioned("color", Position_from(0, 0, 1, 5)), v) : v \in Idents}

InitEval ==
    /\ evalIn \in {Some(a) : a \in EvalInputs}
    /\ debug_assertions \in BOOLEAN
    /\ evalOut = None
    /\ IdleIdMap
    /\ IdleDiag
    /\ IdleApp
    /\ IdleFile
    /\ IdleReload
    /\ IdleTokens

ConstEval ==
    /\ IsSome(evalIn)
    /\ evalOut = None
    /\ evalOut' = Some(const_eval(Unwrap(evalIn), debug_assertions))
    /\ UNCHANGED <<evalIn, debug_assertions, idmapVars, diagVars, appVars, fileVars, reloadVars, tokenVars>>

NextEval == ConstEval

SpecEval == InitEval /\ [][NextEval]_vars

\* A HexColor has been evaluated.
HexEvaluated == IsSome(evalIn) /\ IsSome(evalOut) /\ Unwrap(evalIn).type = "HexColor"

RECURSIVE Chars(_)
\* The chars of a run-length encoded string, one by one.
Chars(s) ==
    IF s = <<>> THEN <<>>
    ELSE [i \in 1..s[1].n |-> s[1].ch] \o Chars(Tail(s))

RECURSIVE CharCount(_)
CharCount(s) == IF s = <<>> THEN 0 ELSE s[1].n + CharCount(Tail(s))

OtherRuns(s) == {k \in 1..Len(s) : s[k].ch \notin HexChars}

\* The number of chars before the first one that is no hex digit.
FirstOtherOffset(s) ==
    LET k == CHOOSE k \in OtherRuns(s) : \A j \in OtherRuns(s) : k <= j
    IN CharCount(SubSeq(s, 1, k - 1))

ToLower(ch) ==
    IF IndexIn(UpperCase, ch) > 0
    THEN SubSeq(LowerCase, IndexIn(UpperCase, ch), IndexIn(UpperCase, ch))
    ELSE ch

\* The value 0..15 of a hex digit, upper or lower case.
DigitValue(ch) == IndexIn("0123456789abcdef", ToLower(ch)) - 1

\* C8: const_eval of HexColor(s) has exactly one outcome: with a char that is
\* no hex digit in s, the error InvalidHexDigit at the offset of the first such
\* char, of length one, whatever the length of s; with hex digits only, a
\* colour when there are 1, 2, 3, 4, 6 or 8 of them and the error
\* InvalidHexColorLen for every other count.
C8_HexOutcome ==
    HexEvaluated =>
        LET c == Unwrap(evalIn)
            out == Unwrap(evalOut)
        IN IF OtherRuns(c.hex) # {}
           THEN out = Err(Positioned([kind |-> "InvalidHexDigit"],
                                     [c.position EXCEPT
                                         !.offset = c.position.offset + FirstOtherOffset(c.hex),
                                         !.length = 1]))
           ELSE IF CharCount(c.hex) \in {1, 2, 3, 4, 6, 8}
                THEN out.ok /\ out.val.type = "Color"
                ELSE /\ ~out.ok
                     /\ ~out.panic
                     /\ out.err.object.kind = "InvalidHexColorLen"

\* The outcome C8 states is that of every build without debug assertions,
\* and of every string short enough for its length to fit the position.
C8_HoldsWithoutDebugAssertions ==
    (HexEvaluated /\ (~debug_assertions \/ CharCount(Unwrap(evalIn).hex) <= U16_MAX)) => C8_HexOutcome

\* A colour of 65535 hex digits and then a `g`, the debug assertion compiled in.
C8_LongEvaluated ==
    /\ HexEvaluated
    /\ debug_assertions
    /\ Unwrap(evalIn).hex = <<[ch |-> "0", n |-> U16_MAX], [ch |-> "g", n |-> 1]>>
    /\ Unwrap(evalOut).panic

\* C26: const_eval returns, with a value or an error, for every input and in
\* every build: no assertion and no overflow check of it fails.
C26_NoPanic == (IsSome(evalIn) /\ IsSome(evalOut)) => ~Unwrap(evalOut).panic

\* A colour of 65535 digits `0`, a `g` and one more `0`, at offset 40 of its
\* file, the debug assertion compiled in: const_eval has panicked.
C26_Witness ==
    /\ HexEvaluated
    /\ debug_assertions
    /\ Unwrap(evalIn).hex = <<[ch |-> "0", n |-> U16_MAX], [ch |-> "g", n |-> 1],
                              [ch |-> "0", n |-> 1]>>
    /\ Unwrap(evalIn).position.offset = 40
    /\ evalOut = Some(Panic)

\* C9: a colour of 1, 3 or 4 hex digits has each channel byte made of its
\* digit twice (17 * digit): #abc is (0xAA, 0xBB, 0xCC, 0xFF), #a is the grey
\* 0xAA with alpha 0xFF.
C9_NibbleDuplicated ==
    (HexEvaluated /\ OtherRuns(Unwrap(evalIn).hex) = {}
                  /\ CharCount(Unwrap(evalIn).hex) \in {1, 3, 4}) =>
        LET ch == Chars(Unwrap(evalIn).hex)
            v(i) == 17 * DigitValue(ch[i])
            rgba == IF Len(ch) = 1 THEN from_parts(v(1), v(1), v(1), 255)
                    ELSE IF Len(ch) = 3 THEN from_parts(v(1), v(2), v(3), 255)
                    ELSE from_parts(v(1), v(2), v(3), v(4))
        IN Unwrap(evalOut) = Ok(Color(rgba))

\* #abc has been evaluated: the code's answer is (0xA0, 0xB0, 0xC0, 0xFF).
C9_ShortEvaluated ==
    /\ HexEvaluated
    /\ Chars(Unwrap(evalIn).hex) = <<"a", "b", "c">>
    /\ Unwrap(evalOut) = Ok(Color(from_parts(160, 176, 192, 255)))

\* C10: a colour of 2, 6 or 8 hex digits has each byte equal to 16 * high
\* digit + low digit, upper and lower case digits alike; 2 digits give a grey
\* of that byte; alpha is 0xFF for 2 and 6 digits and the fourth byte for 8.
C10_ByteFromTwoDigits ==
    (HexEvaluated /\ OtherRuns(Unwrap(evalIn).hex) = {}
                  /\ CharCount(Unwrap(evalIn).hex) \in {2, 6, 8}) =>
        LET c == Unwrap(evalIn)
            ch == Chars(c.hex)
            byte(i) == 16 * DigitValue(ch[2 * i - 1]) + DigitValue(ch[2 * i])
            lower == [c EXCEPT !.hex = [k \in 1..Len(ch) |-> [ch |-> ToLower(ch[k]), n |-> 1]]]
            rgba == IF Len(ch) = 2 THEN from_parts(byte(1), byte(1), byte(1), 255)
                    ELSE IF Len(ch) = 6 THEN from_parts(byte(1), byte(2), byte(3), 255)
                    ELSE from_parts(byte(1), byte(2), byte(3), byte(4))
        IN /\ Unwrap(evalOut) = Ok(Color(rgba))
           /\ const_eval(lower, debug_assertions) = Unwrap(evalOut)

\* #1aB2c3D4 has been evaluated to (0x1A, 0xB2, 0xC3, 0xD4).
C10_Witness ==
    /\ HexEvaluated
    /\ Chars(Unwrap(evalIn).hex) = <<"1", "a", "B", "2", "c", "3", "D", "4">>
    /\ Unwrap(evalOut) = Ok(Color(from_parts(26, 178, 195, 212)))


\* A Block has been evaluated.
BlockEvaluated == IsSome(evalIn) /\ IsSome(evalOut) /\ Unwrap(evalIn).type = "Block"

RECURSIVE Innermost(_)
\* The node reached from a block by going into the only child for as long
\* as the node is a block with exactly one child.
Innermost(a) ==
    IF a.type = "Block" /\ Len(a.block) = 1 THEN Innermost(a.block[1]) ELSE a

\* C11: const_eval of a Block is Unit for an empty block, the value of the
\* innermost node for single-child nesting of any depth, and NotConst at the
\* block for a block of two or more children, whatever the children are: no
\* error and no panic of a child shows in the result.
C11_BlockEvaluation ==
    BlockEvaluated =>
        LET self == Unwrap(evalIn)
            inner == Innermost(self)
        IN /\ Len(self.block) = 0 => Unwrap(evalOut) = Ok(Unit)
           /\ Len(self.block) >= 2 =>
                 Unwrap(evalOut) = Err(Positioned([kind |-> "NotConst"], self.position))
           /\ Len(self.block) = 1 =>
                 Unwrap(evalOut) =
                    IF inner.type = "Block"
                    THEN IF Len(inner.block) = 0 THEN Ok(Unit)
                         ELSE Err(Positioned([kind |-> "NotConst"], inner.position))
                    ELSE IF inner.type = "Ident" THEN Ok(EnumVariant(inner.ident))
                    ELSE IF inner.type = "HexColor" THEN const_eval_hex(inner, debug_assertions)
                    ELSE Ok(Unit)

\* a block of two children that would both panic is NotConst under debug assertions
C11_Witness ==
    /\ BlockEvaluated
    /\ debug_assertions
    /\ Len(Unwrap(evalIn).block) = 2
    /\ \A i \in 1..2 : Unwrap(evalIn).block[i].type = "HexColor"
                        /\ const_eval(Unwrap(evalIn).block[i], TRUE).panic
    /\ Unwrap(evalOut) = Err(Positioned([kind |-> "NotConst"], Position_from(0, 5, 2, 30)))


(***************************************************************************)
(* io/diagnostics.rs : Span = nom_locate::LocatedSpan<&str, FileId>.       *)
(* A span is the rest of the file text `code` from a byte offset on.  The  *)
(* texts parsed here are ASCII: a char is a byte.                          *)
(***************************************************************************)
\* the char at a byte offset, "" at the end of the text
char_at(code, off) == IF off < Len(code) THEN SubSeq(code, off + 1, off + 1) ELSE ""

\* Span::len : the bytes left
span_len(code, off) == Len(code) - off

\* LocatedSpan::location_line
location_line(code, off) ==
    1 + Cardinality({i \in 1..off : SubSeq(code, i, i) = "\n"})

\* impl From<Span> for Position, for the span of `len` bytes at `off`
Span_into(code, file, off, len) ==
    Position_from(file, off, location_line(code, off), len)

\* Position::from_start_end : `(end - start) as u16` truncates
from_start_end(code, file, start, end) ==
    [file |-> file, offset |-> start, line |-> location_line(code, start),
     length |-> (end - start) % (U16_MAX + 1)]

\* Position::extend_back_same_line : `self.length + length` on u16 panics on
\* overflow with debug assertions and wraps without
extend_back_same_line(self, length, debug) ==
    IF debug /\ self.length + length > U16_MAX
    THEN Panic
    ELSE Ok([self EXCEPT !.offset = self.offset - length,
                         !.length = (self.length + length) % (U16_MAX + 1)])

\* Position::extend_to : `(other.offset - self.offset) as u16 + other.length`
extend_to(self, other, debug) ==
    LET gap == (other.offset - self.offset) % (U16_MAX + 1)
    IN IF debug /\ gap + other.length > U16_MAX
       THEN Panic
       ELSE Ok([self EXCEPT !.length = (gap + other.length) % (U16_MAX + 1)])

RECURSIVE Ast_position(_, _)
\* Ast::position (parsing.rs)
Ast_position(self, debug) ==
    CASE self.type = "Block" -> Ok(self.position)
      [] self.type = "Ident" -> Ok(self.position)
      [] self.type = "HexColor" -> extend_back_same_line(self.position, 1, debug)
      [] self.type = "Element" -> extend_to(self.name.position, self.body.position, debug)
      [] self.type = "VariableAssign" ->
            LET v == Ast_position(self.value, debug)
            IN IF v.panic THEN Panic ELSE extend_to(self.variable.position, v.val, debug)

(***************************************************************************)
(* io/parsing/ast_generation.rs : the nom parser.  A parser takes the text *)
(* and the offset its input span starts at; it returns POk(the offset of   *)
(* the rest, the value) or PErr(a GenerateError), nom::Err::Error always:  *)
(* no parser of the file cuts.                                             *)
(***************************************************************************)
POk(rem, val) == [ok |-> TRUE, rem |-> rem, val |-> val]
PErr(position, kind) == [ok |-> FALSE, err |-> [position |-> position, kind |-> kind]]

\* GenerateErrorKind::at : the position is that of the whole span left
GenerateErrorKind_at(kind, code, file, off) ==
    PErr(Span_into(code, file, off, span_len(code, off)), kind)

\* ParseError::from_error_kind for GenerateError
from_error_kind(code, file, off, kind) ==
    GenerateErrorKind_at(IF kind = "AlphaNumeric"
                         THEN [kind |-> "ExpectedIdentifier"]
                         ELSE [kind |-> "Nom", nom |-> kind],
                         code, file, off)

\* ParseError::from_char for GenerateError
from_char(code, file, off, ch) ==
    GenerateErrorKind_at([kind |-> "WrongChar", expected |-> ch], code, file, off)

\* the chars multispace0 takes
MultiSpace == {" ", "\t", "\r", "\n"}

\* char::is_whitespace, on ASCII
is_whitespace(ch) == ch \in MultiSpace \cup {"\f"}

\* char::is_ascii_digit
is_ascii_digit(ch) == IndexIn(Digits, ch) > 0

\* char::is_ascii_punctuation (the grave accent, which no text here holds, left out)
is_ascii_punctuation(ch) ==
    ch \in {"!", "\"", "#", "$", "%", "&", "'", "(", ")", "*", "+", ",", "-", ".", "/",
            ":", ";", "<", "=", ">", "?", "@", "[", "\\", "]", "^", "_", "{", "|", "}", "~"}

\* char::is_alphanum of nom, on ASCII
is_alphanum(ch) ==
    IndexIn(Digits, ch) > 0 \/ IndexIn(UpperCase, ch) > 0 \/ IndexIn(LowerCase, ch) > 0

\* The chars of the input, the domain a char predicate is tabulated on
chars_of(code) == {char_at(code, q) : q \in 0..(Len(code) - 1)}

\* The offset at which the longest run of chars satisfying cond from `off` ends
\* (take_while, take_till with the negated predicate); cond is the predicate
\* tabulated on the chars of the input.
take_while(code, off, cond) ==
    CHOOSE p \in off..Len(code) :
        /\ \A q \in off..(p - 1) : cond[char_at(code, q)]
        /\ p = Len(code) \/ ~cond[char_at(code, p)]

\* multispace0 : never fails
multispace0(code, off) ==
    take_while(code, off, [ch \in chars_of(code) |-> ch \in MultiSpace])

\* trim_start
trim_start(code, off) == multispace0(code, off)

\* nom::character::complete::char
char(code, file, off, ch) ==
    IF char_at(code, off) = ch THEN POk(off + 1, ch) ELSE from_char(code, file, off, ch)

\* nom::bytes::complete::tag
tag(code, file, off, t) ==
    IF off + Len(t) <= Len(code) /\ SubSeq(code, off + 1, off + Len(t)) = t
    THEN POk(off + Len(t), t)
    ELSE from_error_kind(code, file, off, "Tag")

\* fn ident
ident(code, file, off) ==
    LET Start(ch) == ~is_whitespace(ch) /\ ~is_ascii_digit(ch) /\ ~is_ascii_punctuation(ch)
        Rest(ch) == ~is_whitespace(ch)
        first == take_while(code, off, [ch \in chars_of(code) |-> Start(ch)])
        last == take_while(code, first, [ch \in chars_of(code) |-> Rest(ch)])
    IN IF first = off
       THEN \* take_while1 fails; map_err turns every error into ExpectedIdentifier
            GenerateErrorKind_at([kind |-> "ExpectedIdentifier"], code, file, off)
       ELSE POk(multispace0(code, last),
                Positioned(SubSeq(code, off + 1, last), Span_into(code, file, off, last - off)))

\* fn hex_color
hex_color(code, file, off) ==
    LET hash == char(code, file, off, "#")
        last == take_while(code, off + 1, [ch \in chars_of(code) |-> is_alphanum(ch)])
    IN IF ~hash.ok THEN hash
       ELSE IF last = off + 1 THEN from_error_kind(code, file, off + 1, "AlphaNumeric")
       ELSE POk(multispace0(code, last),
                Ast_HexColor(Positioned(Runs(SubSeq(code, off + 2, last)),
                                        Span_into(code, file, off + 1, last - (off + 1)))))

\* BlockTy::open
BlockTy_open(code, file, ty, off) ==
    IF ty = "Bracket"
    THEN LET c == char(code, file, off, "{")
         IN IF c.ok THEN POk(multispace0(code, c.rem), <<>>) ELSE c
    ELSE POk(off, <<>>)

\* BlockTy::close
BlockTy_close(code, file, ty, off) ==
    LET s == trim_start(code, off)
    IN IF ty = "Bracket"
       THEN LET c == char(code, file, s, "}")
            IN IF c.ok THEN POk(multispace0(code, c.rem), <<>>) ELSE c
       ELSE IF span_len(code, s) = 0
            THEN POk(s, <<>>)
            ELSE GenerateErrorKind_at([kind |-> "ExpectedEof"], code, file, s)

RECURSIVE ast(_, _, _)
RECURSIVE block(_, _, _, _)
RECURSIVE block_loop(_, _, _, _, _, _)
RECURSIVE element(_, _, _)
RECURSIVE variable_assign(_, _, _)

\* fn block, `(s, next) = ast(s)?; block.push(next);` : next is the result of ast
block_push(code, file, ty, original, nodes, next) ==
    IF next.ok
    THEN block_loop(code, file, ty, original, next.rem, Append(nodes, next.val))
    ELSE next

\* fn block, `match ty.close(s)` : closed is the result of ty.close(s)
block_match_close(code, file, ty, original, s, nodes, closed) ==
    IF closed.ok
    THEN POk(closed.rem, Positioned(nodes, from_start_end(code, file, original, closed.rem)))
    ELSE IF span_len(code, s) = 0
    THEN closed
    ELSE block_push(code, file, ty, original, nodes, ast(code, file, s))

\* the `loop` of fn block, from the span s with the nodes pushed so far
block_loop(code, file, ty, original, s, nodes) ==
    block_match_close(code, file, ty, original, s, nodes, BlockTy_close(code, file, ty, s))

\* fn block
block(code, file, ty, original) ==
    LET opened == BlockTy_open(code, file, ty, original)
    IN IF opened.ok
       THEN block_loop(code, file, ty, original, opened.rem, <<>>)
       ELSE opened

\* fn element, the block of the separated_pair and the map to Ast::Element :
\* body is the result of block
element_body(name, body) ==
    IF body.ok THEN POk(body.rem, Ast_Element(name.val, body.val)) ELSE body

\* fn element, separated_pair(ident, multispace0, ..) : name is the result of ident
element_name(code, file, name) ==
    IF name.ok
    THEN element_body(name, block(code, file, "Bracket", multispace0(code, name.rem)))
    ELSE name

\* fn element, preceded(tag("element").and(multispace0), ..) : kw is the result of tag
element_tag(code, file, kw) ==
    IF kw.ok THEN element_name(code, file, ident(code, file, multispace0(code, kw.rem))) ELSE kw

\* fn element, the map_err : a failed tag is ExpectedKeywordElement
element_map_err(res) ==
    IF ~res.ok /\ res.err.kind = [kind |-> "Nom", nom |-> "Tag"]
    THEN PErr(res.err.position, [kind |-> "ExpectedKeywordElement"])
    ELSE res

\* fn element
element(code, file, off) ==
    element_map_err(element_tag(code, file, tag(code, file, off, "element")))

\* fn variable_assign, the map to Ast::VariableAssign : value is the result of ast
variable_assign_value(name, value) ==
    IF value.ok THEN POk(value.rem, Ast_VariableAssign(name.val, value.val)) ELSE value

\* fn variable_assign, pair(char('='), multispace0) then ast : eq is the result of char
variable_assign_eq(code, file, name, eq) ==
    IF eq.ok
    THEN variable_assign_value(name, ast(code, file, multispace0(code, eq.rem)))
    ELSE eq

\* fn variable_assign, separated_pair(ident, ..) : name is the result of ident
variable_assign_name(code, file, name) ==
    IF name.ok THEN variable_assign_eq(code, file, name, char(code, file, name.rem, "=")) ELSE name

\* fn variable_assign
variable_assign(code, file, off) == variable_assign_name(code, file, ident(code, file, off))

\* fn ast : alt tries the parsers in order; when all fail the error is the
\* last one's (ParseError::or keeps the later error, append keeps it too).
\* The fourth and fifth alternatives, i the result of ident
alt_ident(code, file, off, i) ==
    IF i.ok THEN POk(i.rem, Ast_Ident(i.val)) ELSE hex_color(code, file, off)

\* the third alternative on, v the result of variable_assign
alt_variable_assign(code, file, off, v) ==
    IF v.ok THEN v ELSE alt_ident(code, file, off, ident(code, file, off))

\* the second alternative on, e the result of element
alt_element(code, file, off, e) ==
    IF e.ok THEN e ELSE alt_variable_assign(code, file, off, variable_assign(code, file, off))

\* the first alternative on, b the result of block(BlockTy::Bracket, ..)
alt_block(code, file, off, b) ==
    IF b.ok THEN POk(b.rem, Ast_Block(b.val)) ELSE alt_element(code, file, off, element(code, file, off))

\* fn ast
ast(code, file, off) == alt_block(code, file, off, block(code, file, "Bracket", off))

\* Ast::generate, `match block(BlockTy::File)(trim_start(s))` : parsed is the result of block
generate_match(parsed, diagnostics) ==
    IF parsed.ok
    THEN [asts |-> parsed.val.object, diagnostics |-> diagnostics]
    ELSE [asts |-> <<>>,
          diagnostics |-> add(diagnostics, parsed.err.position, parsed.err.kind)]

\* Ast::generate : the nodes returned and the diagnostics afterwards
generate(contents, file, diagnostics) ==
    generate_match(block(contents, file, "File", trim_start(contents, 0)), diagnostics)


(***************************************************************************)
(* terrain.rs : Atom, JoinFace; element.rs : Element                       *)
(***************************************************************************)
\* JoinFace::DEFAULT
JoinFace_DEFAULT == "SameAlpha"

\* impl Default for Element
Element_default == [color |-> WHITE, join_face |-> "SameAlpha"]

\* Element::VOID_ID, Element::AIR_ID
VOID_ID == 0
AIR_ID == 0

\* Element::create_map : the builtins; `let _ =` drops the results of insert
Element_create_map ==
    LET void == insert(IdMap_new, "u8", "Void", [Element_default EXCEPT !.color = INVISIBLE]).map
    IN insert(void, "u8", "Air", [Element_default EXCEPT !.color = INVISIBLE]).map

\* MappedToId::create_map, the default: IdMap::new()
FileContents_create_map == IdMap_new

\* Element::create_instance
create_instance(self, id) == [color |-> self.color, join_face |-> self.join_face, element |-> id]

\* IdMap::instance_of
instance_of(self, id) ==
    LET class == get(self, id)
    IN IF IsSome(class) THEN Some(create_instance(Unwrap(class), id)) ELSE None

\* IdMap<Element>::air : instance_of(AIR_ID).unwrap()
air(self) == Unwrap(instance_of(self, AIR_ID))

\* Atom::AIR
Atom_AIR == [color |-> INVISIBLE, join_face |-> JoinFace_DEFAULT, element |-> AIR_ID]

(***************************************************************************)
(* value.rs                                                                *)
(***************************************************************************)
\* ValueUntyped::variant_name
variant_name(self) ==
    CASE self.type = "Color" -> "Color"
      [] self.type = "EnumVariant" -> "{ " \o self.name \o " }"
      [] self.type = "Unit" -> "()"

(***************************************************************************)
(* io/parsing.rs : parse_element, parse_file.  The state a run works on is *)
(* [diagnostics, panic] plus what it builds; once panic is set the run has *)
(* unwound and nothing more is done.                                       *)
(***************************************************************************)
\* diagnostics.add(<position>, diagnostic), the position an Ok(..) or Panic
add_at(st, position, diagnostic) ==
    IF st.panic THEN st
    ELSE IF position.panic THEN [st EXCEPT !.panic = TRUE]
    ELSE [st EXCEPT !.diagnostics = add(@, position.val, diagnostic)]

\* A slip: a value that is no colour resets the colour.
assign_color_match_FailureResets(set, value, val, debug) ==
    IF set.panic THEN set
    ELSE IF val.panic THEN [set EXCEPT !.panic = TRUE]
    ELSE IF val.ok /\ val.val.type = "Color"
         THEN [set EXCEPT !.element.color = val.val.color]
    ELSE IF val.ok
         THEN add_at([set EXCEPT !.element.color = INVISIBLE], Ast_position(value, debug),
                     [kind |-> "VariableType", expected |-> "color",
                      found |-> variant_name(val.val)])
    ELSE [set EXCEPT !.diagnostics = add_positioned(@, val.err),
                     !.element.color = INVISIBLE]

\* `color = value` of parse_element, `match value.const_eval()` : set is the
\* state once color_set is noted, val the result of const_eval
assign_color_match(set, value, val, debug) ==
    IF set.panic THEN set
    ELSE IF val.panic THEN [set EXCEPT !.panic = TRUE]
    ELSE IF val.ok /\ val.val.type = "Color"
         THEN [set EXCEPT !.element.color = val.val.color]
    ELSE IF val.ok
         THEN add_at(set, Ast_position(value, debug),
                     [kind |-> "VariableType", expected |-> "color",
                      found |-> variant_name(val.val)])
    ELSE [set EXCEPT !.diagnostics = add_positioned(@, val.err)]

\* A slip: a second assignment warns and is dropped.
assign_color_FirstWins(st, value, debug) ==
    IF st.color_set
    THEN add_at(st, Ast_position(value, debug), [kind |-> "DoubleDefineVariable"])
    ELSE assign_color_match([st EXCEPT !.color_set = TRUE], value, const_eval(value, debug),
                            debug)

\* One `color = value` of parse_element
assign_color(st, value, debug) ==
    assign_color_match(
        [(IF st.color_set
          THEN add_at(st, Ast_position(value, debug), [kind |-> "DoubleDefineVariable"])
          ELSE st) EXCEPT !.color_set = TRUE],
        value, const_eval(value, debug), debug)

\* `join_face = value` of parse_element, `match value.const_eval()`
assign_join_face_match(set, value, val, debug) ==
    IF set.panic THEN set
    ELSE IF val.panic THEN [set EXCEPT !.panic = TRUE]
    ELSE IF val.ok /\ val.val = EnumVariant("Never")
         THEN [set EXCEPT !.element.join_face = "Never"]
    ELSE IF val.ok /\ val.val = EnumVariant("SameAlpha")
         THEN [set EXCEPT !.element.join_face = "SameAlpha"]
    ELSE IF val.ok
         THEN add_at(set, Ast_position(value, debug),
                     [kind |-> "VariableType", expected |-> "{ Never | SameAlpha }",
                      found |-> variant_name(val.val)])
    ELSE [set EXCEPT !.diagnostics = add_positioned(@, val.err)]

\* One `join_face = value` of parse_element
assign_join_face(st, value, debug) ==
    assign_join_face_match(
        [(IF st.join_face_set
          THEN add_at(st, Ast_position(value, debug), [kind |-> "DoubleDefineVariable"])
          ELSE st) EXCEPT !.join_face_set = TRUE],
        value, const_eval(value, debug), debug)

\* A slip: the value of an unknown variable is evaluated all the same, and
\* taken for a colour.
parse_element_node_UnknownEvaluated(node, st, debug) ==
    IF node.type = "VariableAssign"
    THEN IF node.variable.object = "color"
         THEN assign_color(st, node.value, debug)
         ELSE IF node.variable.object = "join_face"
         THEN assign_join_face(st, node.value, debug)
         ELSE assign_color_match(
                  add_at(st, Ok(node.variable.position), [kind |-> "UnknownVariable"]),
                  node.value, const_eval(node.value, debug), debug)
    ELSE add_at(st, Ast_position(node, debug), [kind |-> "UnexpectedAstKind"])

\* One pass of `for ast in body` of parse_element
parse_element_node(node, st, debug) ==
    IF node.type = "VariableAssign"
    THEN IF node.variable.object = "color"
         THEN assign_color(st, node.value, debug)
         ELSE IF node.variable.object = "join_face"
         THEN assign_join_face(st, node.value, debug)
         ELSE add_at(st, Ok(node.variable.position), [kind |-> "UnknownVariable"])
    ELSE add_at(st, Ast_position(node, debug), [kind |-> "UnexpectedAstKind"])

RECURSIVE parse_element_loop(_, _, _, _)
\* `for ast in body` of parse_element, from the i-th node on
parse_element_loop(body, i, st, debug) ==
    IF i > Len(body) \/ st.panic THEN st
    ELSE parse_element_loop(body, i + 1, parse_element_node(body[i], st, debug), debug)

\* parse_element, the element returned : st is the state after the loop
parse_element_return(st) ==
    [element |-> st.element, diagnostics |-> st.diagnostics, panic |-> st.panic]

\* parse_element : [element, diagnostics, panic]
parse_element(body, diagnostics, debug) ==
    parse_element_return(
        parse_element_loop(body, 1,
                           [element |-> Element_default, color_set |-> FALSE,
                            join_face_set |-> FALSE, diagnostics |-> diagnostics,
                            panic |-> FALSE],
                           debug))

\* The Ast::Element arm of parse_file, `if let Err(e) = elements.insert(..)` :
\* built is the result of parse_element, ins that of elements.insert
parse_file_insert(node, built, ins, debug) ==
    LET after == [elements |-> ins.map, diagnostics |-> built.diagnostics,
                  panic |-> built.panic]
    IN IF built.panic \/ ins.res.ok THEN after
       ELSE IF ins.res.err = "DuplicateName"
       THEN add_at(after, Ast_position(node, debug),
                   [kind |-> "DoubleDefineElement", name |-> node.name.object])
       ELSE add_at(after, Ast_position(node, debug), [kind |-> "ElementLimitReached"])

\* The Ast::Element arm of parse_file : built is the result of parse_element
parse_file_element(node, st, built, debug) ==
    parse_file_insert(node, built,
                      insert(st.elements, "u8", node.name.object, built.element), debug)

\* A slip: a block at file scope is passed over in silence.
parse_file_node_BlockPassedOver(node, st, debug) ==
    CASE node.type = "Element" ->
            parse_file_element(node, st,
                               parse_element(node.body.object, st.diagnostics, debug), debug)
      [] node.type = "Block" -> st
      [] node.type = "Ident" -> add_at(st, Ok(node.position), [kind |-> "UnexpectedIdent"])
      [] node.type = "VariableAssign" ->
            add_at(st, Ok(node.variable.position), [kind |-> "UnexpectedIdent"])
      [] node.type = "HexColor" -> add_at(st, Ok(node.position), [kind |-> "UnexpectedValue"])

\* One arm of the `match ast` of parse_file; st is [elements, diagnostics, panic]
parse_file_node(node, st, debug) ==
    CASE node.type = "Element" ->
            parse_file_element(node, st,
                               parse_element(node.body.object, st.diagnostics, debug), debug)
      [] node.type = "Block" -> add_at(st, Ok(node.position), [kind |-> "UnexpectedBlock"])
      [] node.type = "Ident" -> add_at(st, Ok(node.position), [kind |-> "UnexpectedIdent"])
      [] node.type = "VariableAssign" ->
            add_at(st, Ok(node.variable.position), [kind |-> "UnexpectedIdent"])
      [] node.type = "HexColor" -> add_at(st, Ok(node.position), [kind |-> "UnexpectedValue"])

RECURSIVE parse_file_loop(_, _, _, _)
\* `for ast in asts` of parse_file
parse_file_loop(asts, i, st, debug) ==
    IF i > Len(asts) \/ st.panic THEN st
    ELSE parse_file_loop(asts, i + 1, parse_file_node(asts[i], st, debug), debug)

\* parse_file, from `let asts = Ast::generate(..)` on : generated is its result
parse_file_asts(generated, st, debug) ==
    parse_file_loop(generated.asts, 1, [st EXCEPT !.diagnostics = generated.diagnostics], debug)

\* parse_file : [elements, diagnostics, panic] afterwards
parse_file(code, file, st, debug) ==
    parse_file_asts(generate(code, file, st.diagnostics), st, debug)

(***************************************************************************)
(* io.rs : read_files, load_set, hot_reload_set, load_set_system.          *)
(* A set directory is [readable, entries]: whether fs::read_dir succeeds   *)
(* and what it lists, in listing order; an entry is [listed, file_type,    *)
(* extension, file_name, open, read, contents]: whether the entry itself   *)
(* could be read, what file_type() and path.extension() say, the name      *)
(* after to_string_lossy, whether File::open and read_to_string succeed,   *)
(* and the text read.                                                      *)
(***************************************************************************)
RECURSIVE read_files_loop(_, _, _)
\* `for entry in entries.filter_map(|e| e.ok())` of read_files;
\* st is [files, diagnostics, panic]
read_files_loop(entries, i, st) ==
    IF i > Len(entries) \/ st.panic THEN st
    ELSE LET entry == entries[i]
             next ==
                IF ~entry.listed THEN st
                ELSE IF ~(entry.file_type = "file" /\ entry.extension = "splang") THEN st
                ELSE IF ~entry.open
                THEN [st EXCEPT !.diagnostics =
                        add_unpositioned(@, [kind |-> "OpenFile", name |-> entry.file_name])]
                ELSE IF ~entry.read
                THEN [st EXCEPT !.diagnostics =
                        add_unpositioned(@, [kind |-> "ReadFile", name |-> entry.file_name])]
                ELSE LET ins == insert(st.files, "u16", entry.file_name, entry.contents)
                     IN IF ins.res.ok
                        THEN [st EXCEPT !.files = ins.map]
                        ELSE [st EXCEPT !.panic = TRUE]      \* .expect(..)
         IN read_files_loop(entries, i + 1, next)

\* read_files : [files, diagnostics, panic]
read_files(set, diagnostics) ==
    IF ~set.readable
    THEN [files |-> FileContents_create_map,
          diagnostics |-> add_unpositioned(diagnostics, [kind |-> "ReadDirectory"]),
          panic |-> FALSE]
    ELSE read_files_loop(set.entries, 1,
                         [files |-> FileContents_create_map, diagnostics |-> diagnostics,
                          panic |-> FALSE])

RECURSIVE load_set_loop(_, _, _, _)
\* `for (id, _name, FileContents(file)) in files.iter()` of load_set
load_set_loop(files, i, st, debug) ==
    IF i > Len(files) \/ st.panic THEN st
    ELSE load_set_loop(files, i + 1, parse_file(files[i][3], files[i][1], st, debug), debug)

\* load_set, `Some(elements)` : parsed is the state after the loop
load_set_return(parsed) ==
    [ret |-> Some(parsed.elements), diagnostics |-> parsed.diagnostics, panic |-> parsed.panic]

\* load_set, from `let files = read_files(..)` on : read is its result
load_set_files(read, debug) ==
    IF read.panic
    THEN [ret |-> None, diagnostics |-> read.diagnostics, panic |-> TRUE]
    ELSE IF has_errored(read.diagnostics)
    THEN [ret |-> None, diagnostics |-> read.diagnostics, panic |-> FALSE]
    ELSE load_set_return(
             load_set_loop(iter(read.files, "u16"), 1,
                           [elements |-> Element_create_map,
                            diagnostics |-> read.diagnostics, panic |-> FALSE],
                           debug))

\* load_set : [ret, diagnostics, panic]; the diagnostics are printed at the end
load_set(set, diagnostics, debug) == load_set_files(read_files(set, diagnostics), debug)

\* Atoms::modify_all : f, tabulated on the atoms of the world, on every atom
modify_all(self, f) == [i \in 1..Len(self) |-> f[self[i]]]

\* A slip: an atom whose element name is gone is left as it is.
hot_reload_atom_GoneUntouched(atom, old_elements, new_elements) ==
    LET old == get_full(old_elements, atom.element)
        new == get_full_by_name(new_elements, "u8", Unwrap(old)[1])
        old_element == Unwrap(old)[2]
        id == Unwrap(new)[1]
        new_element == Unwrap(new)[2]
        color == IF atom.color = old_element.color /\ atom.color # new_element.color
                 THEN new_element.color ELSE atom.color
        join_face == IF atom.join_face = old_element.join_face
                        /\ atom.join_face # new_element.join_face
                     THEN new_element.join_face ELSE atom.join_face
    IN IF ~IsSome(old) THEN atom
       ELSE IF IsSome(new)
       THEN [color |-> color, join_face |-> join_face, element |-> id]
       ELSE atom

\* A slip: the atom keeps the id it had in the old registry.
hot_reload_atom_KeepsId(atom, old_elements, new_elements) ==
    LET old == get_full(old_elements, atom.element)
        new == get_full_by_name(new_elements, "u8", Unwrap(old)[1])
        old_element == Unwrap(old)[2]
        new_element == Unwrap(new)[2]
        color == IF atom.color = old_element.color /\ atom.color # new_element.color
                 THEN new_element.color ELSE atom.color
        join_face == IF atom.join_face = old_element.join_face
                        /\ atom.join_face # new_element.join_face
                     THEN new_element.join_face ELSE atom.join_face
    IN IF ~IsSome(old) THEN atom
       ELSE IF IsSome(new)
       THEN [color |-> color, join_face |-> join_face, element |-> atom.element]
       ELSE air(new_elements)

\* A slip: an atom whose colour was edited keeps its join-face as well.
hot_reload_atom_AllOrNothing(atom, old_elements, new_elements) ==
    LET old == get_full(old_elements, atom.element)
        new == get_full_by_name(new_elements, "u8", Unwrap(old)[1])
        old_element == Unwrap(old)[2]
        id == Unwrap(new)[1]
        new_element == Unwrap(new)[2]
        untouched == atom.color = old_element.color /\ atom.join_face = old_element.join_face
    IN IF ~IsSome(old) THEN atom
       ELSE IF IsSome(new)
       THEN [color |-> IF untouched THEN new_element.color ELSE atom.color,
             join_face |-> IF untouched THEN new_element.join_face ELSE atom.join_face,
             element |-> id]
       ELSE air(new_elements)

\* The closure hot_reload_set hands to modify_all
hot_reload_atom(atom, old_elements, new_elements) ==
    LET old == get_full(old_elements, atom.element)
        new == get_full_by_name(new_elements, "u8", Unwrap(old)[1])
        old_element == Unwrap(old)[2]
        id == Unwrap(new)[1]
        new_element == Unwrap(new)[2]
        color == IF atom.color = old_element.color /\ atom.color # new_element.color
                 THEN new_element.color ELSE atom.color
        join_face == IF atom.join_face = old_element.join_face
                        /\ atom.join_face # new_element.join_face
                     THEN new_element.join_face ELSE atom.join_face
    IN IF ~IsSome(old) THEN atom
       ELSE IF IsSome(new)
       THEN [color |-> color, join_face |-> join_face, element |-> id]
       ELSE air(new_elements)

\* hot_reload_set : the world and the installed registry afterwards
hot_reload_set(old, new_elements) ==
    LET atoms == {old.world[i] : i \in 1..Len(old.world)}
        Reload == [atom \in atoms |-> hot_reload_atom(atom, old.elements, new_elements)]
    IN [world |-> modify_all(old.world, Reload), elements |-> new_elements]

(***************************************************************************)
(* terrain/storage.rs, player/building.rs, atom_physics/inspector.rs       *)
(***************************************************************************)
\* Atoms::contains_atom : positions are 0 .. size - 1 along one axis
contains_atom(self, pos) == 0 <= pos /\ pos < Len(self)

\* Atoms::set
set_atom(self, pos, atom) == [self EXCEPT ![pos + 1] = atom]

\* place_atom_system : the world afterwards.  look_pos is None or
\* Some([grid_pos, normal]), the atom looked at and the side it is seen from.
place_atom_system(self, look_pos, break_atom, place_atom, registry, selected) ==
    IF ~IsSome(look_pos) THEN self
    ELSE LET pos == Unwrap(look_pos)
             broken == IF break_atom /\ contains_atom(self, pos.grid_pos)
                       THEN set_atom(self, pos.grid_pos, air(registry))
                       ELSE self
             place_pos == pos.grid_pos + pos.normal
             atom == instance_of(registry, selected)
         IN IF place_atom /\ contains_atom(broken, place_pos) /\ IsSome(atom)
            THEN set_atom(broken, place_pos, Unwrap(atom))
            ELSE broken


(***************************************************************************)
(* The set directories the load requests find on disk.                     *)
(***************************************************************************)
MaxLoads == 2        \* load_set_system runs on a LoadSet event
MaxEdits == 2        \* runs of place_atom_system and set_inspector_system
WorldSize == 2       \* atoms of the world

\* a readable `.splang` file
Splang(file_name, contents) ==
    [listed |-> TRUE, file_type |-> "file", extension |-> "splang", file_name |-> file_name,
     open |-> TRUE, read |-> TRUE, contents |-> contents]

Directory(entries) == [readable |-> TRUE, entries |-> entries]
Unreadable == [readable |-> FALSE, entries |-> <<>>]

\* file texts that declare the element Foo once and nothing else
FooPlain == "element Foo {}"
FooRed == "element Foo {\n    color = #ff0000\n}"
FooNever == "element Foo { join_face = Never }"
FooOnceTexts == {FooPlain, FooRed, FooNever}

\* file texts that declare another element once
BarPlain == "element Bar {}"
BazPlain == "element Baz { color = #00ff00 }"

\* file texts without an Error-level diagnostic
FooTwice == "element Foo {}\nelement Foo { color = #ff0000 }"
CleanTexts ==
    FooOnceTexts \cup
    {FooTwice,
     "element Bar {}\nelement Foo { color = #0000ff80 }",
     "element X { foo = #fff }",
     "element Air { color = #ffffff }",
     ""}

\* file texts with one: a syntax error, a malformed top-level node, a value of
\* the wrong type, a value that does not evaluate
ErrorTexts ==
    {"element Foo {", "}", "element Foo { color = # }",
     "{}", "Foo", "#fff", "x = #fff",
     "element Foo { color = Never }", "element Foo { join_face = #fff }",
     "element Foo { color = {} }", "element Foo { {} }",
     "element Foo { color = #1234567 }", "element Foo { color = #12g }",
     "element Foo { color = { Never Never } }"}

\* one of each sort, for the sets where a file with an error sits beside a clean one
ErrorTextsPaired ==
    {"}", "{}", "element Foo { color = Never }", "element Foo { color = #12g }"}

\* a `.splang` file that cannot be opened, and one that cannot be read
Unopenable(file_name) == [Splang(file_name, "") EXCEPT !.open = FALSE]
UnreadableFile(file_name) == [Splang(file_name, "") EXCEPT !.read = FALSE]

\* sets with such files after and among readable ones
SkippedDirs ==
    {Directory(<<Splang("a.splang", FooRed), Unopenable("b.splang")>>),
     Directory(<<Splang("a.splang", FooRed), UnreadableFile("b.splang")>>),
     Directory(<<Unopenable("a.splang"), Splang("b.splang", FooRed),
                 UnreadableFile("c.splang"), Splang("d.splang", BarPlain)>>),
     Directory(<<Unopenable("a.splang"), UnreadableFile("b.splang")>>)}

\* one set as fs::read_dir may list it, and as it is with its entries in the
\* order of their file names
Listed ==
    {[listing |-> Directory(<<Splang("a.splang", FooRed), Splang("b.splang", BarPlain)>>),
      sorted |-> Directory(<<Splang("a.splang", FooRed), Splang("b.splang", BarPlain)>>)],
     [listing |-> Directory(<<Splang("b.splang", BarPlain), Splang("a.splang", FooRed)>>),
      sorted |-> Directory(<<Splang("a.splang", FooRed), Splang("b.splang", BarPlain)>>)],
     [listing |-> Directory(<<Splang("c.splang", BazPlain), Splang("a.splang", FooRed),
                              Splang("b.splang", BarPlain)>>),
      sorted |-> Directory(<<Splang("a.splang", FooRed), Splang("b.splang", BarPlain),
                             Splang("c.splang", BazPlain)>>)],
     [listing |-> Directory(<<Splang("b.splang", FooPlain), Splang("a.splang", FooPlain)>>),
      sorted |-> Directory(<<Splang("a.splang", FooPlain), Splang("b.splang", FooPlain)>>)]}

SetDirs ==
    {Unreadable, Directory(<<>>)}
    \cup {Directory(<<Splang("a.splang", t)>>) : t \in CleanTexts \cup ErrorTexts}
    \cup {Directory(<<Splang("a.splang", t), Splang("b.splang", u)>>) :
             t \in FooOnceTexts, u \in FooOnceTexts}
    \cup {Directory(<<Splang("b.splang", t), Splang("a.splang", u)>>) :
             t \in {FooRed}, u \in FooOnceTexts}
    \cup {Directory(<<Splang("a.splang", t), Splang("b.splang", FooPlain)>>) :
             t \in ErrorTextsPaired}
    \cup {Directory(<<Splang("a.splang", FooRed), Splang("b.splang", t)>>) :
             t \in ErrorTextsPaired}
    \cup {Directory(<<e, Splang("b.splang", FooNever)>>) :
             e \in {[Splang("a.splang", "") EXCEPT !.open = FALSE],
                    [Splang("a.splang", "") EXCEPT !.read = FALSE],
                    [Splang("a.splang", "") EXCEPT !.listed = FALSE],
                    [Splang("a.splang", "") EXCEPT !.file_type = "dir"],
                    [Splang("notes.txt", "element Bar {") EXCEPT !.extension = "txt"]}}
    \cup {Directory(<<Splang("a.splang", FooPlain), Splang("a.splang", FooRed)>>)}
    \cup SkippedDirs
    \cup {c.listing : c \in Listed} \cup {c.sorted : c \in Listed}

\* The LoadSet events and what load_avalible_sets finds when they are served.
Events ==
    {[name |-> Some("basic"), listable |-> TRUE,
      avalible_sets |-> <<[name |-> "basic", path |-> set]>>] : set \in SetDirs}
    \cup {[name |-> None, listable |-> TRUE, avalible_sets |-> <<>>],
          [name |-> Some("basic"), listable |-> TRUE, avalible_sets |-> <<>>],
          [name |-> Some("basic"), listable |-> FALSE, avalible_sets |-> <<>>]}

\* load_set depends on the directory and the build alone: its results for
\* the directories above, each computed once.
load_set_of ==
    [set \in SetDirs |-> [debug \in BOOLEAN |-> load_set(set, Diagnostics_init, debug)]]

\* load_set(set, &mut diagnostics) as load_set_system calls it, on fresh diagnostics
load_set_fresh(set, debug) ==
    IF set \in SetDirs THEN load_set_of[set][debug] ELSE load_set(set, Diagnostics_init, debug)

\* A slip: the load is installed whatever the diagnostics say.
load_set_system_install_NoErrorCheck(kept, hot_reload_params, loaded) ==
    LET reloaded == hot_reload_set(hot_reload_params, Unwrap(loaded.ret))
    IN IF loaded.panic THEN [kept EXCEPT !.diagnostics = loaded.diagnostics, !.panic = TRUE]
       ELSE IF IsSome(loaded.ret)
       THEN [world |-> reloaded.world, elements |-> reloaded.elements,
             diagnostics |-> loaded.diagnostics, hot_reloaded |-> TRUE, panic |-> FALSE]
       ELSE [kept EXCEPT !.diagnostics = loaded.diagnostics]

\* load_set_system, `if let Some(new_elements) = load_set(..) { if
\* !diagnostics.has_errored() { hot_reload_set(..) } }` : loaded is the result
\* of load_set, kept the outcome of a run that changes nothing
load_set_system_install(kept, hot_reload_params, loaded) ==
    LET reloaded == hot_reload_set(hot_reload_params, Unwrap(loaded.ret))
    IN IF loaded.panic THEN [kept EXCEPT !.diagnostics = loaded.diagnostics, !.panic = TRUE]
       ELSE IF IsSome(loaded.ret) /\ ~has_errored(loaded.diagnostics)
       THEN [world |-> reloaded.world, elements |-> reloaded.elements,
             diagnostics |-> loaded.diagnostics, hot_reloaded |-> TRUE, panic |-> FALSE]
       ELSE [kept EXCEPT !.diagnostics = loaded.diagnostics]

\* load_set_system on a LoadSet event.  event is [name, listable,
\* avalible_sets]: the name the event carries, whether assets/sets/ can be
\* listed, and the sets found there, sorted.  The result is the world and the
\* registry afterwards, the diagnostics of the run (printed where the code
\* prints them), whether hot_reload_set was called and whether the run
\* panicked.
load_set_system(event, hot_reload_params, debug) ==
    LET kept == [world |-> hot_reload_params.world, elements |-> hot_reload_params.elements,
                 diagnostics |-> Diagnostics_init, hot_reloaded |-> FALSE, panic |-> FALSE]
        found == {i \in 1..Len(event.avalible_sets) :
                     event.avalible_sets[i].name = Unwrap(event.name)}
        set == event.avalible_sets[CHOOSE i \in found : \A j \in found : i <= j]
    IN IF ~event.listable THEN kept
       ELSE IF ~IsSome(event.name) THEN kept
       ELSE IF found = {} THEN kept
       ELSE load_set_system_install(kept, hot_reload_params, load_set_fresh(set.path, debug))

(***************************************************************************)
(* The running program: the resources as the plugins insert them, then the *)
(* systems in any order.                                                   *)
(***************************************************************************)
InitApp ==
    /\ elements = Element_create_map                 \* atom_physics.rs
    /\ world = [i \in 1..WorldSize |-> Atom_AIR]     \* Atoms::default
    /\ selected_element = 1                          \* BuildingPlugin
    /\ request = None
    /\ hot_reloaded = FALSE
    /\ panicked = FALSE
    /\ diag = Diagnostics_init
    /\ debug_assertions \in BOOLEAN
    /\ nLoads = 0
    /\ nEdits = 0
    /\ IdleIdMap
    /\ IdleEval
    /\ IdleFile
    /\ IdleReload
    /\ IdleTokens

\* load_set_system serves a LoadSet event
LoadSet ==
    /\ ~panicked
    /\ nLoads < MaxLoads
    /\ \E event \in Events :
          \E run \in {load_set_system(event, [world |-> world, elements |-> elements],
                                      debug_assertions)} :
             /\ world' = run.world
             /\ elements' = run.elements
             /\ diag' = run.diagnostics
             /\ hot_reloaded' = run.hot_reloaded
             /\ panicked' = run.panic
             /\ request' = Some(event)
    /\ nLoads' = nLoads + 1
    /\ UNCHANGED <<selected_element, nEdits, debug_assertions, idmapVars, evalVars, fileVars, reloadVars, tokenVars>>

\* place_atom_system, the player looking at an atom or at none
PlaceAtom ==
    /\ ~panicked
    /\ nEdits < MaxEdits
    /\ \E grid_pos \in 0..(WorldSize - 1), normal \in {-1, 1},
          break_atom \in BOOLEAN, place_atom \in BOOLEAN :
          world' = place_atom_system(world, Some([grid_pos |-> grid_pos, normal |-> normal]),
                                     break_atom, place_atom, elements, selected_element)
    /\ nEdits' = nEdits + 1
    /\ UNCHANGED <<elements, selected_element, request, hot_reloaded, panicked, nLoads, diag,
                   debug_assertions, idmapVars, evalVars, fileVars, reloadVars, tokenVars>>

\* set_inspector_system, the label of an element clicked
SetInspector ==
    /\ ~panicked
    /\ nEdits < MaxEdits
    /\ \E i \in 1..im_len(elements) : selected_element' = iter(elements, "u8")[i][1]
    /\ nEdits' = nEdits + 1
    /\ UNCHANGED <<elements, world, request, hot_reloaded, panicked, nLoads, diag,
                   debug_assertions, idmapVars, evalVars, fileVars, reloadVars, tokenVars>>

NextApp == LoadSet \/ PlaceAtom \/ SetInspector

SpecApp == InitApp /\ [][NextApp]_vars

\* The step is a run of load_set_system.
LoadStep == nLoads' = nLoads + 1

\* The directory of the set the latest request loaded, if it loaded one.
LoadedDirectory ==
    IF IsSome(request) /\ Unwrap(request).listable /\ IsSome(Unwrap(request).name)
       /\ Unwrap(request).avalible_sets # <<>>
    THEN Some(Unwrap(request).avalible_sets[1].path)
    ELSE None

\* C6: a load request that records an Error-level diagnostic never calls
\* hot_reload_set: the installed registry and every atom of the world are
\* the same after the request as before it.
C6_FailedLoadChangesNothing ==
    [][(LoadStep /\ \E i \in 1..Len(diag'.diagnostics) : LevelsAdded(diag')[i] = "Error")
          => /\ ~hot_reloaded'
             /\ elements' = elements
             /\ world' = world]_vars

\* A set whose second file has a syntax error was requested while Foo, known
\* to the registry as white, has an atom in the world; the first file of the
\* set declares Foo red.
C6_Witness ==
    /\ LoadedDirectory = Some(Directory(<<Splang("a.splang", FooRed), Splang("b.splang", "}")>>))
    /\ has_errored(diag)
    /\ ~hot_reloaded
    /\ get_full_by_name(elements, "u8", "Foo") = Some(<<2, Element_default>>)
    /\ world[1] = [color |-> WHITE, join_face |-> "SameAlpha", element |-> 2]

\* What each text of FooOnceTexts declares Foo to be.
FooDeclared(text) ==
    IF text = FooRed THEN [color |-> from_parts(255, 0, 0, 255), join_face |-> "SameAlpha"]
    ELSE IF text = FooNever THEN [color |-> from_parts(255, 255, 255, 255), join_face |-> "Never"]
    ELSE [color |-> from_parts(255, 255, 255, 255), join_face |-> "SameAlpha"]

\* The latest request loaded a set of two readable files that declare Foo once each.
TwoFilesDeclareFoo ==
    /\ IsSome(LoadedDirectory)
    /\ Unwrap(LoadedDirectory).readable
    /\ Len(Unwrap(LoadedDirectory).entries) = 2
    /\ \A i \in 1..2 :
          /\ Unwrap(LoadedDirectory).entries[i].contents \in FooOnceTexts
          /\ Unwrap(LoadedDirectory).entries[i] =
                Splang(Unwrap(LoadedDirectory).entries[i].file_name,
                       Unwrap(LoadedDirectory).entries[i].contents)
    /\ Unwrap(LoadedDirectory).entries[1].file_name # Unwrap(LoadedDirectory).entries[2].file_name

\* The latest request loaded a set of one file that declares Foo twice.
OneFileDeclaresFooTwice ==
    LoadedDirectory = Some(Directory(<<Splang("a.splang", FooTwice)>>))

SkippedFiles ==
    LET entries == Unwrap(LoadedDirectory).entries
        Skipped(e) == e.listed /\ e.file_type = "file" /\ e.extension = "splang"
                      /\ ~(e.open /\ e.read)
        skipped == SelectSeq(entries, Skipped)
    IN [i \in 1..Len(skipped) |->
           <<None, [kind |-> IF skipped[i].open THEN "ReadFile" ELSE "OpenFile",
                    name |-> skipped[i].file_name]>>]

\* The texts of the files of that set that could be read, in listing order.
ReadTexts ==
    LET entries == Unwrap(LoadedDirectory).entries
        Read(e) == e.listed /\ e.file_type = "file" /\ e.extension = "splang"
                   /\ e.open /\ e.read
        read == SelectSeq(entries, Read)
    IN [i \in 1..Len(read) |-> read[i].contents]

\* The latest request loaded a set with a file that could not be opened or
\* read, its other files declaring one element each without a diagnostic.
SetWithSkippedFile ==
    /\ IsSome(LoadedDirectory)
    /\ Unwrap(LoadedDirectory).readable
    /\ Len(SkippedFiles) >= 1
    /\ \A i \in 1..Len(ReadTexts) : ReadTexts[i] \in {FooRed, FooNever, BarPlain}

\* C22: a file of a set that cannot be opened or read adds one Warn, is
\* skipped alone and does not set has_errored(): the other files are read and
\* parsed and the load is installed.  A set directory that cannot be listed
\* adds one Error; no file is parsed and load_set returns no registry.
C22_ReadFailures ==
    /\ SetWithSkippedFile =>
          /\ diag.diagnostics = SkippedFiles
          /\ \A i \in 1..Len(diag.diagnostics) : LevelsAdded(diag)[i] = "Warn"
          /\ ~has_errored(diag)
          /\ ~panicked
          /\ hot_reloaded
          /\ im_len(elements) = 2 + Len(ReadTexts)
          /\ \A i \in 1..Len(ReadTexts) :
                IF ReadTexts[i] = BarPlain
                THEN get_full(elements, 1 + i) = Some(<<"Bar", Element_default>>)
                ELSE get_full(elements, 1 + i) = Some(<<"Foo", FooDeclared(ReadTexts[i])>>)
    /\ LoadedDirectory = Some(Unreadable) =>
          /\ diag.diagnostics = <<<<None, [kind |-> "ReadDirectory"]>>>>
          /\ LevelsAdded(diag) = <<"Error">>
          /\ has_errored(diag)
          /\ ~hot_reloaded
          /\ load_set(Unreadable, Diagnostics_init, debug_assertions).ret = None

\* one file cannot be opened and one cannot be read; the two between and
\* after them are installed as Foo and Bar
C22_Witness ==
    /\ LoadedDirectory =
          Some(Directory(<<Unopenable("a.splang"), Splang("b.splang", FooRed),
                           UnreadableFile("c.splang"), Splang("d.splang", BarPlain)>>))
    /\ Len(diag.diagnostics) = 2
    /\ ~has_errored(diag)
    /\ hot_reloaded
    /\ get_full_by_name(elements, "u8", "Foo") = Some(<<2, FooDeclared(FooRed)>>)
    /\ get_full_by_name(elements, "u8", "Bar") = Some(<<3, Element_default>>)

\* the set directory could not be listed: one Error, nothing installed
C22_DirectoryUnreadable ==
    /\ LoadedDirectory = Some(Unreadable)
    /\ LevelsAdded(diag) = <<"Error">>
    /\ ~hot_reloaded

\* C23: the files of a set are parsed into the registry in the order of their
\* file names: whatever order the directory listing gives the entries in,
\* every element gets the id it gets when the entries are listed in name order.
C23_SortedNameOrder ==
    \A c \in Listed :
        (LoadedDirectory = Some(c.listing) /\ hot_reloaded) =>
            elements = Unwrap(load_set(c.sorted, Diagnostics_init, debug_assertions).ret)

\* b.splang, listed before a.splang, was parsed first: its Bar has id 2 and
\* the Foo of a.splang id 3; listed in name order Foo has id 2 and Bar id 3
C23_Witness ==
    /\ LoadedDirectory =
          Some(Directory(<<Splang("b.splang", BarPlain), Splang("a.splang", FooRed)>>))
    /\ hot_reloaded
    /\ get_full(elements, 2) = Some(<<"Bar", Element_default>>)
    /\ get_full(elements, 3) = Some(<<"Foo", FooDeclared(FooRed)>>)
    /\ get_full(Unwrap(load_set(Directory(<<Splang("a.splang", FooRed),
                                            Splang("b.splang", BarPlain)>>),
                                Diagnostics_init, debug_assertions).ret), 2)
          = Some(<<"Foo", FooDeclared(FooRed)>>)

\* C30: from the world of Air atoms and the registry of Element::create_map,
\* after any breaking and placing of atoms and any loads of sets, the element
\* id of every atom of the world is an id of the installed registry.
C30_AtomIdsValid ==
    \A i \in 1..Len(world) : IsSome(get(elements, world[i].element))

\* an atom of Foo was placed under id 2; a second set, which declares Bar
\* before Foo, was installed: the atom has id 3, which is Foo
C30_Witness ==
    /\ nLoads = MaxLoads
    /\ hot_reloaded
    /\ im_len(elements) = 4
    /\ \E i \in 1..Len(world) :
          /\ world[i].element = 3
          /\ get_full(elements, world[i].element) = Some(<<"Foo", FooDeclared(FooRed)>>)

\* the selected id is one the installed registry no longer holds, and the
\* world holds only ids it does
C30_StaleSelection ==
    /\ hot_reloaded
    /\ ~IsSome(get(elements, selected_element))
    /\ nEdits = MaxEdits
    /\ C30_AtomIdsValid


(***************************************************************************)
(* One file through Ast::generate and through parse_file, as load_set      *)
(* calls it for the first file of a set: file id 0, the registry that      *)
(* Element::create_map gives, diagnostics that are empty so far.           *)
(***************************************************************************)
\* element bodies that set no recognised property
NoPropertyTexts ==
    {"element Foo {}", "element Foo {\n}", "element X { foo = #fff }",
     "element X { foo = #12g }", "element X { foo = { a b } }",
     "element X { foo = Never bar = #1234567 }"}

\* element bodies that assign a property more than once: the text, the
\* offsets of the values of the assignments after the first of their
\* property, and the element the last assignments describe
Reassigned ==
    {[text |-> "element Foo { color = #ff0000 color = #00ff00 }",
      later |-> <<38>>,
      last |-> [color |-> from_parts(0, 255, 0, 255), join_face |-> "SameAlpha"]],
     [text |-> "element Foo { color = #ff0000 color = #00ff00 color = #0000ff80 }",
      later |-> <<38, 54>>,
      last |-> [color |-> from_parts(0, 0, 255, 128), join_face |-> "SameAlpha"]],
     [text |-> "element Foo { join_face = Never join_face = SameAlpha }",
      later |-> <<44>>,
      last |-> [color |-> from_parts(255, 255, 255, 255), join_face |-> "SameAlpha"]],
     [text |-> "element Foo { join_face = SameAlpha join_face = Never }",
      later |-> <<48>>,
      last |-> [color |-> from_parts(255, 255, 255, 255), join_face |-> "Never"]],
     [text |-> "element Foo { color = #f00 join_face = Never color = { #00ff00ff } }",
      later |-> <<53>>,
      last |-> [color |-> from_parts(0, 255, 0, 255), join_face |-> "Never"]],
     [text |-> "element Foo { join_face = Never color = #00f join_face = Never color = #00f }",
      later |-> <<57, 71>>,
      last |-> [color |-> from_parts(0, 0, 240, 255), join_face |-> "Never"]]}

ReassignedTexts == {c.text : c \in Reassigned}

\* element bodies with assignments to unknown variables: the text, the
\* unknown names with their offsets, and the element the other assignments describe
UnknownAssigned ==
    {[text |-> "element X { foo = #fff }",
      unknown |-> <<[name |-> "foo", offset |-> 12]>>,
      element |-> Element_default],
     [text |-> "element X { foo = #12g }",
      unknown |-> <<[name |-> "foo", offset |-> 12]>>,
      element |-> Element_default],
     [text |-> "element X { foo = { a b } }",
      unknown |-> <<[name |-> "foo", offset |-> 12]>>,
      element |-> Element_default],
     [text |-> "element X { foo = Never bar = #1234567 }",
      unknown |-> <<[name |-> "foo", offset |-> 12], [name |-> "bar", offset |-> 24]>>,
      element |-> Element_default],
     [text |-> "element X { color = #ff0000 colour = #00ff00 join_face = Never }",
      unknown |-> <<[name |-> "colour", offset |-> 28]>>,
      element |-> [color |-> from_parts(255, 0, 0, 255), join_face |-> "Never"]],
     [text |-> "element X { Color = #00f join_face = Never Join_face = SameAlpha }",
      unknown |-> <<[name |-> "Color", offset |-> 12], [name |-> "Join_face", offset |-> 43]>>,
      element |-> [color |-> from_parts(255, 255, 255, 255), join_face |-> "Never"]]}

UnknownAssignedTexts == {c.text : c \in UnknownAssigned}

\* element bodies with values that cannot be assigned: the text, the
\* Error-level diagnostics expected with the offset and length of their
\* positions, and the element the assignments that can be made describe
VariableTypeError(expected, found) ==
    [kind |-> "VariableType", expected |-> expected, found |-> found]

MisAssigned ==
    {[text |-> "element Foo { color = Never }",
      errors |-> <<<<22, 5, VariableTypeError("color", "{ Never }")>>>>,
      element |-> Element_default],
     [text |-> "element Foo { color = {} }",
      errors |-> <<<<22, 3, VariableTypeError("color", "()")>>>>,
      element |-> Element_default],
     [text |-> "element Foo { color = { a = b } }",
      errors |-> <<<<22, 10, VariableTypeError("color", "()")>>>>,
      element |-> Element_default],
     [text |-> "element Foo { join_face = #fff }",
      errors |-> <<<<26, 4, VariableTypeError("{ Never | SameAlpha }", "Color")>>>>,
      element |-> Element_default],
     [text |-> "element Foo { join_face = Other }",
      errors |-> <<<<26, 5, VariableTypeError("{ Never | SameAlpha }", "{ Other }")>>>>,
      element |-> Element_default],
     [text |-> "element Foo { join_face = never }",
      errors |-> <<<<26, 5, VariableTypeError("{ Never | SameAlpha }", "{ never }")>>>>,
      element |-> Element_default],
     [text |-> "element Foo { join_face = {} }",
      errors |-> <<<<26, 3, VariableTypeError("{ Never | SameAlpha }", "()")>>>>,
      element |-> Element_default],
     [text |-> "element Foo { color = #1234567 }",
      errors |-> <<<<23, 7, [kind |-> "InvalidHexColorLen"]>>>>,
      element |-> Element_default],
     [text |-> "element Foo { color = #12g }",
      errors |-> <<<<25, 1, [kind |-> "InvalidHexDigit"]>>>>,
      element |-> Element_default],
     [text |-> "element Foo { color = { Never Never } }",
      errors |-> <<<<22, 16, [kind |-> "NotConst"]>>>>,
      element |-> Element_default],
     [text |-> "element Foo { join_face = { #f #f } }",
      errors |-> <<<<26, 10, [kind |-> "NotConst"]>>>>,
      element |-> Element_default],
     [text |-> "element Foo { join_face = #12g }",
      errors |-> <<<<29, 1, [kind |-> "InvalidHexDigit"]>>>>,
      element |-> Element_default],
     [text |-> "element Foo { color = #ff0000 join_face = Never color = Never join_face = #12345 }",
      errors |-> <<<<56, 5, VariableTypeError("color", "{ Never }")>>,
                   <<75, 5, [kind |-> "InvalidHexColorLen"]>>>>,
      element |-> [color |-> from_parts(255, 0, 0, 255), join_face |-> "Never"]],
     [text |-> "element Foo { color = #00f color = #1234567 }",
      errors |-> <<<<36, 7, [kind |-> "InvalidHexColorLen"]>>>>,
      element |-> [color |-> from_parts(0, 0, 240, 255), join_face |-> "SameAlpha"]]}

MisAssignedTexts == {c.text : c \in MisAssigned}

\* texts that assign: the value is an identifier, a hex colour, a block, an
\* element, nothing, or what reads as a further assignment
AssignTexts ==
    {"a = b", "a = #fff", "a = { b = c }", "a = {}", "a = element X {}",
     "a = b = c", "a = b = c = d", "a = b = #fff", "a = b = { c }",
     "element X { a = b = c }", "a = = c", "a =", "a = b ="}

\* files with nodes at file scope that are no element: the text, the
\* diagnostics expected as <<offset, length, diagnostic>>, and the names the
\* registry holds afterwards, in id order
Stray ==
    {[text |-> "{}",
      errors |-> <<<<0, 2, [kind |-> "UnexpectedBlock"]>>>>,
      names |-> <<"Void", "Air">>],
     [text |-> "foo",
      errors |-> <<<<0, 3, [kind |-> "UnexpectedIdent"]>>>>,
      names |-> <<"Void", "Air">>],
     [text |-> "a = b",
      errors |-> <<<<0, 1, [kind |-> "UnexpectedIdent"]>>>>,
      names |-> <<"Void", "Air">>],
     [text |-> "#fff",
      errors |-> <<<<1, 3, [kind |-> "UnexpectedValue"]>>>>,
      names |-> <<"Void", "Air">>],
     [text |-> "{ element X {} } element Foo {}",
      errors |-> <<<<0, 17, [kind |-> "UnexpectedBlock"]>>>>,
      names |-> <<"Void", "Air", "Foo">>],
     [text |-> "a = element X {} element X {}",
      errors |-> <<<<0, 1, [kind |-> "UnexpectedIdent"]>>>>,
      names |-> <<"Void", "Air", "X">>],
     [text |-> "element Foo {} Foo #12g {}",
      errors |-> <<<<15, 3, [kind |-> "UnexpectedIdent"]>>,
                   <<20, 3, [kind |-> "UnexpectedValue"]>>,
                   <<24, 2, [kind |-> "UnexpectedBlock"]>>>>,
      names |-> <<"Void", "Air", "Foo">>],
     [text |-> "foo element Foo { color = #f00 } #fff {} a = element X {} element Bar {}",
      errors |-> <<<<0, 3, [kind |-> "UnexpectedIdent"]>>,
                   <<34, 3, [kind |-> "UnexpectedValue"]>>,
                   <<38, 3, [kind |-> "UnexpectedBlock"]>>,
                   <<41, 1, [kind |-> "UnexpectedIdent"]>>>>,
      names |-> <<"Void", "Air", "Foo", "Bar">>]}

StrayTexts == {c.text : c \in Stray}

\* `element N {\n    color = #D\n}` for names N and six-digit hex strings D,
\* with the bytes D spells
MinimalNames == {"Bedrock", "x", "element", "Stone2", "a{", "n=#1", "Void", "Air"}

SixDigits ==
    {[hex |-> "686868", color |-> from_parts(104, 104, 104, 255)],
     [hex |-> "000000", color |-> from_parts(0, 0, 0, 255)],
     [hex |-> "ffffff", color |-> from_parts(255, 255, 255, 255)],
     [hex |-> "FFFFFF", color |-> from_parts(255, 255, 255, 255)],
     [hex |-> "AbCdEf", color |-> from_parts(171, 205, 239, 255)],
     [hex |-> "09afAF", color |-> from_parts(9, 175, 175, 255)],
     [hex |-> "123456", color |-> from_parts(18, 52, 86, 255)]}

MinimalText(name, hex) == "element " \o name \o " {\n    color = #" \o hex \o "\n}"

Minimal ==
    {[text |-> MinimalText(n, d.hex), name |-> n, hex |-> d.hex, color |-> d.color] :
        n \in MinimalNames, d \in SixDigits}

MinimalTexts == {c.text : c \in Minimal}

\* a text, and the text with spaces, tabs or newlines added at its start, at
\* its end, where it has whitespace, or between two adjacent braces
Widened ==
    {[text |-> "{{}}", wide |-> "\n   {\n \n{  \n}\n}\n\n"],
     [text |-> "{{}}", wide |-> "{ {}}"],
     [text |-> "{{}}", wide |-> "{{ }}"],
     [text |-> "{{}}", wide |-> "{{}\t}"],
     [text |-> "{}{}", wide |-> "{}\n{}"],
     [text |-> "", wide |-> " \n\t"],
     [text |-> "a = b", wide |-> "\ta  =\n b "],
     [text |-> "a = {}", wide |-> "a = {\n}\n"],
     [text |-> "#fff{}", wide |-> "#fff{ }"],
     [text |-> "element Foo {}", wide |-> "element Foo { }"],
     [text |-> "element Foo {}", wide |-> "\nelement\n\tFoo\n{\n}\n"],
     [text |-> "element X { foo = #fff }", wide |-> "  element  X {\n\tfoo =\t#fff\n}"],
     [text |-> "a = = c", wide |-> " a  =  =  c "],
     [text |-> "a =", wide |-> "a = "],
     [text |-> "{}}", wide |-> "{ } }"],
     [text |-> "{{}", wide |-> "{ { }"],
     [text |-> "Foo{}", wide |-> "Foo{ }"],
     [text |-> "a = b{}", wide |-> "a = b{\n}"],
     [text |-> "element Foo{}", wide |-> "element Foo{ }"]}

WidenedTexts == {c.text : c \in Widened} \cup {c.wide : c \in Widened}

\* texts whose braces are balanced, and texts with a `}` that closes nothing
\* or a `{` left open at the end of input
BraceTexts ==
    {"{}", "{{}{}}", "{ a }", "a {}", "x = { y }",
     "{", "}", "{{}", "{}}", "}{", "{ a", "a }", "a {", "x = {", "element X {",
     "element X { color = #fff", "element X {} }", "#fff }",
     "a{", "a}", "a{ b }", "x = y{", "element X { a{ }"}

\* files with tokens no statement can start with, among well-formed
\* statements: the text, the number of such tokens, and the names of the
\* elements declared around them
Broken ==
    {[text |-> "element Foo {}\n=\nelement Bar {}", tokens |-> 1, names |-> <<"Foo", "Bar">>],
     [text |-> "element Foo {}\n}\nelement Bar {}", tokens |-> 1, names |-> <<"Foo", "Bar">>],
     [text |-> "= element Foo {}", tokens |-> 1, names |-> <<"Foo">>],
     [text |-> "element Foo {} =", tokens |-> 1, names |-> <<"Foo">>],
     [text |-> "element Foo { color = #fff }\n=\nelement Bar {}\n}\n", tokens |-> 2,
      names |-> <<"Foo", "Bar">>],
     [text |-> "=\nelement Foo {}\n=", tokens |-> 2, names |-> <<"Foo">>],
     [text |-> "= }", tokens |-> 2, names |-> <<>>]}

BrokenTexts == {c.text : c \in Broken}

FileTexts ==
    BrokenTexts \cup BraceTexts \cup WidenedTexts \cup MinimalTexts \cup StrayTexts \cup NoPropertyTexts \cup ReassignedTexts \cup UnknownAssignedTexts \cup MisAssignedTexts
        \cup AssignTexts

InitFile ==
    /\ fileIn \in FileTexts
    /\ generateOut = None
    /\ parseOut = None
    /\ nFiles = 0
    /\ debug_assertions \in BOOLEAN
    /\ IdleIdMap
    /\ IdleDiag
    /\ IdleEval
    /\ IdleApp
    /\ IdleReload
    /\ IdleTokens

\* Ast::generate(contents, 0, &mut diagnostics)
Generate ==
    /\ generateOut = None
    /\ generateOut' = Some(generate(fileIn, 0, Diagnostics_init))
    /\ UNCHANGED <<fileIn, parseOut, nFiles, debug_assertions, idmapVars, diagVars, evalVars, appVars, reloadVars, tokenVars>>

\* parse_file(code, 0, &mut diagnostics, &mut elements)
ParseFile ==
    /\ parseOut = None
    /\ parseOut' = Some(parse_file(fileIn, 0,
                                   [elements |-> Element_create_map,
                                    diagnostics |-> Diagnostics_init, panic |-> FALSE],
                                   debug_assertions))
    /\ UNCHANGED <<fileIn, generateOut, nFiles, debug_assertions, idmapVars, diagVars, evalVars, appVars, reloadVars, tokenVars>>

NextFile == Generate \/ ParseFile

SpecFile == InitFile /\ [][NextFile]_vars

\* parse_file has run on the file.
Parsed == IsSome(parseOut)

\* The diagnostics parse_file left, their kinds and their levels in order.
ParseDiagnostics == Unwrap(parseOut).diagnostics
ParseKinds == [i \in 1..Len(ParseDiagnostics.diagnostics) |-> ParseDiagnostics.diagnostics[i][2].kind]
ParseLevels == LevelsAdded(ParseDiagnostics)

\* What the registry parse_file left holds under a name: None or Some(<<id, element>>).
Registered(name) == get_full_by_name(Unwrap(parseOut).elements, "u8", name)

\* The name of the element a text of the form `element <name> {..}` declares.
DeclaredName(text) == IF SubSeq(text, 9, 9) = "X" THEN "X" ELSE "Foo"

\* C12: an element whose body sets no recognised property is registered
\* with a fully transparent colour (alpha 0) and the default join-face.
C12_StartsTransparent ==
    (Parsed /\ fileIn \in NoPropertyTexts) =>
        /\ IsSome(Registered(DeclaredName(fileIn)))
        /\ Unwrap(Registered(DeclaredName(fileIn)))[2].color.a = 0
        /\ Unwrap(Registered(DeclaredName(fileIn)))[2].join_face = JoinFace_DEFAULT

\* `element Foo {}` is registered opaque white.
C12_Witness ==
    /\ Parsed
    /\ fileIn = "element Foo {}"
    /\ Registered("Foo") = Some(<<2, [color |-> from_parts(255, 255, 255, 255),
                                      join_face |-> "SameAlpha"]>>)
    /\ Len(ParseDiagnostics.diagnostics) = 0

\* C13: each assignment of `color` or `join_face` after the first of its
\* property adds exactly one Warn DoubleDefineVariable, at the value assigned;
\* the first adds none; has_errored() stays false; the element ends with the
\* values assigned last.
C13_LastWriteWins ==
    \A c \in Reassigned :
        (Parsed /\ fileIn = c.text) =>
            /\ ~Unwrap(parseOut).panic
            /\ Len(ParseDiagnostics.diagnostics) = Len(c.later)
            /\ \A i \in 1..Len(c.later) :
                  /\ ParseKinds[i] = "DoubleDefineVariable"
                  /\ ParseLevels[i] = "Warn"
                  /\ IsSome(ParseDiagnostics.diagnostics[i][1])
                  /\ Unwrap(ParseDiagnostics.diagnostics[i][1]).offset = c.later[i]
            /\ ~has_errored(ParseDiagnostics)
            /\ Registered("Foo") = Some(<<2, c.last>>)

\* color is assigned three times: two warnings, and the third value is kept
C13_Witness ==
    /\ Parsed
    /\ fileIn = "element Foo { color = #ff0000 color = #00ff00 color = #0000ff80 }"
    /\ ParseKinds = <<"DoubleDefineVariable", "DoubleDefineVariable">>
    /\ ~has_errored(ParseDiagnostics)
    /\ Unwrap(Registered("Foo"))[2].color = from_parts(0, 0, 255, 128)

\* C14: an assignment to a name other than `color` and `join_face` adds
\* exactly one Warn UnknownVariable at the name and nothing else, whatever its
\* value is; the element is what the other assignments make it (the default
\* when there are none), it is registered, and has_errored() is false.
C14_UnknownVariableIgnored ==
    \A c \in UnknownAssigned :
        (Parsed /\ fileIn = c.text) =>
            /\ ~Unwrap(parseOut).panic
            /\ Len(ParseDiagnostics.diagnostics) = Len(c.unknown)
            /\ \A i \in 1..Len(c.unknown) :
                  /\ ParseKinds[i] = "UnknownVariable"
                  /\ ParseLevels[i] = "Warn"
                  /\ ParseDiagnostics.diagnostics[i][1] =
                        Some([file |-> 0, offset |-> c.unknown[i].offset, line |-> 1,
                              length |-> Len(c.unknown[i].name)])
            /\ ~has_errored(ParseDiagnostics)
            /\ Registered("X") = Some(<<2, c.element>>)

\* `element X { foo = #12g }`: one warning, no InvalidHexDigit, X registered
C14_Witness ==
    /\ Parsed
    /\ fileIn = "element X { foo = #12g }"
    /\ ParseKinds = <<"UnknownVariable">>
    /\ ~has_errored(ParseDiagnostics)
    /\ Registered("X") = Some(<<2, Element_default>>)

\* The Error-level diagnostics parse_file left, as <<offset, length, diagnostic>>.
ParseErrors ==
    LET IsError(d) == level(d[2]) = "Error"
        errors == SelectSeq(ParseDiagnostics.diagnostics, IsError)
    IN [i \in 1..Len(errors) |->
           <<Unwrap(errors[i][1]).offset, Unwrap(errors[i][1]).length, errors[i][2]>>]

\* C15: a `color` or `join_face` assignment whose value evaluates to a value
\* of the wrong kind adds exactly one Error VariableType naming what was
\* expected and found; one whose value does not evaluate adds exactly one
\* Error of the EvalError kind; either way the field keeps the value it had.
C15_BadValueKeepsField ==
    \A c \in MisAssigned :
        (Parsed /\ fileIn = c.text) =>
            /\ ~Unwrap(parseOut).panic
            /\ ParseErrors = c.errors
            /\ \A i \in 1..Len(ParseKinds) :
                  ParseLevels[i] = "Warn" => ParseKinds[i] = "DoubleDefineVariable"
            /\ has_errored(ParseDiagnostics)
            /\ Registered("Foo") = Some(<<2, c.element>>)

\* red, then a seven-digit colour: one InvalidHexColorLen and Foo stays as it was
C15_Witness ==
    /\ Parsed
    /\ fileIn = "element Foo { color = #00f color = #1234567 }"
    /\ ParseKinds = <<"DoubleDefineVariable", "InvalidHexColorLen">>
    /\ Unwrap(Registered("Foo"))[2].color = from_parts(0, 0, 240, 255)

Generated == IsSome(generateOut)
GenerateDiagnostics == Unwrap(generateOut).diagnostics
GenerateAsts == Unwrap(generateOut).asts

RECURSIVE AssignsAssignment(_)
\* Some VariableAssign in the node has a VariableAssign as its value.
AssignsAssignment(a) ==
    IF a.type = "VariableAssign"
    THEN a.value.type = "VariableAssign" \/ AssignsAssignment(a.value)
    ELSE IF a.type = "Block"
    THEN \E i \in 1..Len(a.block) : AssignsAssignment(a.block[i])
    ELSE IF a.type = "Element"
    THEN \E i \in 1..Len(a.body.object) : AssignsAssignment(a.body.object[i])
    ELSE FALSE

\* C16: Ast::generate never returns, without a diagnostic, a VariableAssign
\* whose value is itself a VariableAssign.
C16_NoNestedAssignment ==
    (Generated /\ Len(GenerateDiagnostics.diagnostics) = 0) =>
        \A i \in 1..Len(GenerateAsts) : ~AssignsAssignment(GenerateAsts[i])

\* `a = b = c` comes back as a = (b = c) with no diagnostic
C16_Witness ==
    /\ Generated
    /\ fileIn = "a = b = c"
    /\ Len(GenerateDiagnostics.diagnostics) = 0
    /\ Len(GenerateAsts) = 1
    /\ GenerateAsts[1].type = "VariableAssign"
    /\ GenerateAsts[1].variable.object = "a"
    /\ GenerateAsts[1].value.type = "VariableAssign"
    /\ GenerateAsts[1].value.variable.object = "b"
    /\ GenerateAsts[1].value.value.type = "Ident"
    /\ GenerateAsts[1].value.value.ident = "c"

\* The names parse_file left in the registry, in id order.
ParseNames ==
    LET registry == iter(Unwrap(parseOut).elements, "u8")
    IN [i \in 1..Len(registry) |-> registry[i][2]]

\* C17: for every node at file scope that is no Element, parse_file adds
\* exactly one positioned Error-level ParseError and registers nothing, and
\* goes on with the nodes after it.
C17_StrayNodeRejected ==
    \A c \in Stray :
        (Parsed /\ fileIn = c.text) =>
            /\ ~Unwrap(parseOut).panic
            /\ ParseErrors = c.errors
            /\ Len(ParseKinds) = Len(c.errors)
            /\ \A i \in 1..Len(ParseKinds) : ParseKinds[i] \in ParseErrorKinds
            /\ ParseNames = c.names

\* one stray node of each kind between two elements: four errors, and both
\* elements are registered
C17_Witness ==
    /\ Parsed
    /\ fileIn = "foo element Foo { color = #f00 } #fff {} a = element X {} element Bar {}"
    /\ ParseKinds = <<"UnexpectedIdent", "UnexpectedValue", "UnexpectedBlock", "UnexpectedIdent">>
    /\ \A i \in 1..4 : ParseLevels[i] = "Error"
    /\ ParseNames = <<"Void", "Air", "Foo", "Bar">>
    /\ Unwrap(Registered("Foo"))[2].color = from_parts(240, 0, 0, 255)

\* Ast::generate returned, with no diagnostic, the one Element `name` whose
\* body is the one assignment of HexColor(hex) to `color`.
GeneratedMinimal(name, hex) ==
    /\ GenerateDiagnostics = Diagnostics_init
    /\ Len(GenerateAsts) = 1
    /\ GenerateAsts[1].type = "Element"
    /\ GenerateAsts[1].name.object = name
    /\ Len(GenerateAsts[1].body.object) = 1
    /\ GenerateAsts[1].body.object[1].type = "VariableAssign"
    /\ GenerateAsts[1].body.object[1].variable.object = "color"
    /\ GenerateAsts[1].body.object[1].value.type = "HexColor"
    /\ GenerateAsts[1].body.object[1].value.hex = Runs(hex)

\* parse_file registered `name` as the one new element, with the colour and
\* the default join-face, and added no diagnostic.
ParsedMinimal(name, color) ==
    /\ ~Unwrap(parseOut).panic
    /\ ParseDiagnostics = Diagnostics_init
    /\ ParseNames = <<"Void", "Air", name>>
    /\ Registered(name) = Some(<<2, [color |-> color, join_face |-> JoinFace_DEFAULT]>>)

RECURSIVE Unpositioned(_)
\* The node without its positions.
Unpositioned(a) ==
    CASE a.type = "Block" ->
            [type |-> "Block", block |-> [i \in 1..Len(a.block) |-> Unpositioned(a.block[i])]]
      [] a.type = "Ident" -> [type |-> "Ident", ident |-> a.ident]
      [] a.type = "HexColor" -> [type |-> "HexColor", hex |-> a.hex]
      [] a.type = "Element" ->
            [type |-> "Element", name |-> a.name.object,
             body |-> [i \in 1..Len(a.body.object) |-> Unpositioned(a.body.object[i])]]
      [] a.type = "VariableAssign" ->
            [type |-> "VariableAssign", variable |-> a.variable.object,
             value |-> Unpositioned(a.value)]

UnpositionedAsts(asts) == [i \in 1..Len(asts) |-> Unpositioned(asts[i])]

\* Ast::generate of the text gives what the variable holds for the widened
\* text: the same nodes but for positions, and no more diagnostics.
SameAsGenerated(text) ==
    LET narrow == generate(text, 0, Diagnostics_init)
    IN /\ UnpositionedAsts(GenerateAsts) = UnpositionedAsts(narrow.asts)
       /\ Len(GenerateDiagnostics.diagnostics) <= Len(narrow.diagnostics.diagnostics)

\* C19: spaces, tabs or newlines added at the start or end of the input,
\* where it has whitespace, or between two adjacent braces leave the nodes
\* Ast::generate returns the same but for positions, and add no diagnostic.
C19_WhitespaceInsignificant ==
    \A c \in Widened : (Generated /\ fileIn = c.wide) => SameAsGenerated(c.text)

\* `Foo{}` is the identifier Foo{} with no diagnostic; with a space between
\* the braces nothing is returned and there is one diagnostic
C19_Witness ==
    /\ Generated
    /\ fileIn = "Foo{ }"
    /\ GenerateAsts = <<>>
    /\ Len(GenerateDiagnostics.diagnostics) = 1
    /\ UnpositionedAsts(generate("Foo{}", 0, Diagnostics_init).asts)
          = <<[type |-> "Ident", ident |-> "Foo{}"]>>
    /\ generate("Foo{}", 0, Diagnostics_init).diagnostics = Diagnostics_init

\* the two texts of the tests: one block holding one empty block, both times
C19_BlockInBlock ==
    /\ Generated
    /\ fileIn = "\n   {\n \n{  \n}\n}\n\n"
    /\ GenerateDiagnostics = Diagnostics_init
    /\ UnpositionedAsts(GenerateAsts)
          = <<[type |-> "Block", block |-> <<[type |-> "Block", block |-> <<>>]>>]>>
    /\ SameAsGenerated("{{}}")

RECURSIVE Nests(_, _, _)
\* From char i on, at depth `open`, no `}` closes nothing and no `{` is left open.
Nests(text, i, open) ==
    IF i > Len(text) THEN open = 0
    ELSE IF SubSeq(text, i, i) = "{" THEN Nests(text, i + 1, open + 1)
    ELSE IF SubSeq(text, i, i) = "}" THEN open > 0 /\ Nests(text, i + 1, open - 1)
    ELSE Nests(text, i + 1, open)

\* The `{` and `}` of the text are balanced and properly nested.
Balanced(text) == Nests(text, 1, 0)

\* C20: when Ast::generate records no diagnostic the braces of the input are
\* balanced and properly nested; an input with a `}` that closes nothing or a
\* `{` still open at the end of input records an Error diagnostic.
C20_BracesBalanced ==
    Generated =>
        \/ Balanced(fileIn)
        \/ /\ Len(GenerateDiagnostics.diagnostics) >= 1
           /\ has_errored(GenerateDiagnostics)
           /\ \E i \in 1..Len(GenerateDiagnostics.diagnostics) :
                 level(GenerateDiagnostics.diagnostics[i][2]) = "Error"

\* `a{` leaves a brace open and comes back as the identifier a{ with no diagnostic
C20_Witness ==
    /\ Generated
    /\ fileIn = "a{"
    /\ ~Balanced(fileIn)
    /\ GenerateDiagnostics = Diagnostics_init
    /\ UnpositionedAsts(GenerateAsts) = <<[type |-> "Ident", ident |-> "a{"]>>

\* a `{` left open after whitespace: nothing is returned and there is one Error
C20_OpenBraceReported ==
    /\ Generated
    /\ fileIn = "a {"
    /\ GenerateAsts = <<>>
    /\ Len(GenerateDiagnostics.diagnostics) = 1
    /\ has_errored(GenerateDiagnostics)

\* The names of the Element nodes Ast::generate returned at file scope, in order.
GeneratedElements ==
    LET IsElement(a) == a.type = "Element"
        found == SelectSeq(GenerateAsts, IsElement)
    IN [i \in 1..Len(found) |-> found[i].name.object]

\* C21: a syntax error does not abort the parse of the file: Ast::generate
\* records one diagnostic per unexpected token and still returns the
\* well-formed statements of the file; two such tokens give two diagnostics.
C21_RecoversAfterSyntaxError ==
    \A c \in Broken :
        (Generated /\ fileIn = c.text) =>
            /\ Len(GenerateDiagnostics.diagnostics) = c.tokens
            /\ GeneratedElements = c.names

\* two elements around a lone `=`: nothing is returned and there is one diagnostic
C21_Witness ==
    /\ Generated
    /\ fileIn = "element Foo {}\n=\nelement Bar {}"
    /\ GenerateAsts = <<>>
    /\ Len(GenerateDiagnostics.diagnostics) = 1
    /\ has_errored(GenerateDiagnostics)

\* two unexpected tokens: one diagnostic, at the first of them
C21_TwoErrorsOneDiagnostic ==
    /\ Generated
    /\ fileIn = "=\nelement Foo {}\n="
    /\ GenerateAsts = <<>>
    /\ Len(GenerateDiagnostics.diagnostics) = 1
    /\ Unwrap(GenerateDiagnostics.diagnostics[1][1]).offset = 0

(***************************************************************************)
(* hot_reload_set on its own: a registry that loads have installed, a      *)
(* world whose atoms belong to it, and the registry of a new load.  The    *)
(* fields of an atom are public and Atoms::set takes any atom, so an atom  *)
(* need not carry the values of its element.                               *)
(***************************************************************************)
RED == from_parts(255, 0, 0, 255)

\* the elements a declaration of the sets above gives
ElementValues ==
    {[color |-> c, join_face |-> j] : c \in {WHITE, RED}, j \in {"SameAlpha", "Never"}}

\* Element::create_map() after parse_file has inserted the declarations
Declared(declarations) ==
    IF Len(declarations) = 0 THEN Element_create_map
    ELSE IF Len(declarations) = 1
    THEN insert(Element_create_map, "u8", declarations[1][1], declarations[1][2]).map
    ELSE insert(insert(Element_create_map, "u8", declarations[1][1], declarations[1][2]).map,
                "u8", declarations[2][1], declarations[2][2]).map

\* the registries with Foo, Bar, both in either order, or neither
Registries ==
    {Declared(<<>>)}
    \cup {Declared(<<<<n, e>>>>) : n \in {"Foo", "Bar"}, e \in ElementValues}
    \cup {Declared(<<<<"Foo", e>>, <<"Bar", f>>>>) : e \in ElementValues, f \in ElementValues}
    \cup {Declared(<<<<"Bar", e>>, <<"Foo", f>>>>) : e \in ElementValues, f \in ElementValues}

\* the atoms of an element of the registry, as placed or with fields set by hand
AtomsOf(registry) ==
    {[color |-> c, join_face |-> j, element |-> iter(registry, "u8")[i][1]] :
        c \in {INVISIBLE, WHITE, RED}, j \in {"SameAlpha", "Never"},
        i \in 1..im_len(registry)}

InitReload ==
    /\ \E old \in Registries, new \in Registries :
          \E atom \in AtomsOf(old) :
             reloadIn = [elements |-> old, world |-> <<atom, Atom_AIR>>, new |-> new]
    /\ reloadOut = None
    /\ IdleIdMap
    /\ IdleDiag
    /\ IdleEval
    /\ IdleBuild
    /\ IdleApp
    /\ IdleFile
    /\ IdleTokens

\* hot_reload_set(old, elements)
HotReload ==
    /\ reloadOut = None
    /\ reloadOut' = Some(hot_reload_set([world |-> reloadIn.world,
                                         elements |-> reloadIn.elements], reloadIn.new))
    /\ UNCHANGED <<reloadIn, debug_assertions, idmapVars, diagVars, evalVars, appVars, fileVars, tokenVars>>

NextReload == HotReload

SpecReload == InitReload /\ [][NextReload]_vars

Reloaded == IsSome(reloadOut)

\* The name and the element atom i had in the old registry, what the new
\* registry holds under that name, and the atom before and after.
OldOf(i) == get_full(reloadIn.elements, reloadIn.world[i].element)
NewOf(i) == get_full_by_name(reloadIn.new, "u8", Unwrap(OldOf(i))[1])
Before(i) == reloadIn.world[i]
After(i) == Unwrap(reloadOut).world[i]

\* C24: every atom whose element id names n in the old registry, n also in
\* the new one, ends with the id the new registry gives n, and the new
\* registry is the installed one afterwards.
C24_RemapsByName ==
    Reloaded =>
        /\ Unwrap(reloadOut).elements = reloadIn.new
        /\ \A i \in 1..Len(reloadIn.world) :
              (IsSome(OldOf(i)) /\ IsSome(NewOf(i))) =>
                  /\ After(i).element = Unwrap(NewOf(i))[1]
                  /\ Unwrap(get_full(Unwrap(reloadOut).elements, After(i).element))[1]
                        = Unwrap(OldOf(i))[1]

\* Foo had id 2; the new registry holds Bar under 2 and Foo under 3: the
\* atom of Foo has id 3 afterwards
C24_Witness ==
    /\ Reloaded
    /\ OldOf(1) = Some(<<"Foo", [color |-> WHITE, join_face |-> "SameAlpha"]>>)
    /\ Before(1).element = 2
    /\ get_full(reloadIn.new, 2) = Some(<<"Bar", [color |-> WHITE, join_face |-> "SameAlpha"]>>)
    /\ After(1).element = 3
    /\ Unwrap(get_full(Unwrap(reloadOut).elements, 3))[1] = "Foo"

\* The atom's element name is not in the new registry.
NameGone(i) == IsSome(OldOf(i)) /\ ~IsSome(NewOf(i))

\* C25: an atom whose old element name is not in the new registry becomes
\* the Air atom of the new registry: its id resolves there to the builtin
\* named Air, and its colour is fully transparent.
C25_FallsBackToAir ==
    Reloaded =>
        \A i \in 1..Len(reloadIn.world) :
            NameGone(i) =>
                /\ IsSome(get_full(Unwrap(reloadOut).elements, After(i).element))
                /\ Unwrap(get_full(Unwrap(reloadOut).elements, After(i).element))[1] = "Air"
                /\ After(i).color.a = 0

\* Foo is gone from the new registry: its atom is transparent afterwards,
\* under id 0, which the registry resolves to Void; Air has id 1
C25_Witness ==
    /\ Reloaded
    /\ Unwrap(OldOf(1))[1] = "Foo"
    /\ NameGone(1)
    /\ After(1) = [color |-> INVISIBLE, join_face |-> "SameAlpha", element |-> 0]
    /\ Unwrap(get_full(Unwrap(reloadOut).elements, After(1).element))[1] = "Void"
    /\ Unwrap(get_full_by_name(Unwrap(reloadOut).elements, "u8", "Air"))[1] = 1

\* The atom's element name is in both registries.
NameKept(i) == IsSome(OldOf(i)) /\ IsSome(NewOf(i))

\* C27: for an atom whose element name is in both registries, color and
\* join_face are handled each on its own: a field equal to the old element's
\* value becomes the new element's value, a field that differs is left as it is.
C27_FieldsIndependent ==
    Reloaded =>
        \A i \in 1..Len(reloadIn.world) :
            NameKept(i) =>
                /\ After(i).color =
                      IF Before(i).color = Unwrap(OldOf(i))[2].color
                      THEN Unwrap(NewOf(i))[2].color ELSE Before(i).color
                /\ After(i).join_face =
                      IF Before(i).join_face = Unwrap(OldOf(i))[2].join_face
                      THEN Unwrap(NewOf(i))[2].join_face ELSE Before(i).join_face

\* an atom of Foo (white, SameAlpha) painted red by hand, Foo redeclared
\* white and Never: the atom stays red and takes Never
C27_Witness ==
    /\ Reloaded
    /\ OldOf(1) = Some(<<"Foo", [color |-> WHITE, join_face |-> "SameAlpha"]>>)
    /\ NewOf(1) = Some(<<2, [color |-> WHITE, join_face |-> "Never"]>>)
    /\ Before(1) = [color |-> RED, join_face |-> "SameAlpha", element |-> 2]
    /\ After(1) = [color |-> RED, join_face |-> "Never", element |-> 2]

(***************************************************************************)
(* load_set's loop over the files of a set: parse_file on one file after   *)
(* the other, into one registry and one Diagnostics.  File k declares      *)
(* elements no file before it declared.                                    *)
(***************************************************************************)
RECURSIVE Decimal(_)
\* n in decimal digits
Decimal(n) ==
    IF n < 10 THEN SubSeq(Digits, n + 1, n + 1)
    ELSE Decimal(n \div 10) \o SubSeq(Digits, (n % 10) + 1, (n % 10) + 1)

RECURSIVE Declarations(_, _)
\* a file text declaring the elements e<from>, e<from + 1>, .., `count` of them
Declarations(from, count) ==
    IF count = 0 THEN ""
    ELSE "element e" \o Decimal(from) \o " {}\n" \o Declarations(from + 1, count - 1)

MaxFiles == 90       \* files of the set
MaxPerFile == 3      \* declarations of a file

InitLimit ==
    /\ fileIn = ""
    /\ generateOut = None
    /\ parseOut = Some([elements |-> Element_create_map, diagnostics |-> Diagnostics_init,
                        panic |-> FALSE])
    /\ nFiles = 0
    /\ debug_assertions \in BOOLEAN
    /\ IdleIdMap
    /\ IdleDiag
    /\ IdleEval
    /\ IdleApp
    /\ IdleReload
    /\ IdleTokens

\* one turn of `for (id, _name, FileContents(file)) in files.iter()`: the
\* first file declares one to MaxPerFile elements, the others MaxPerFile each
LoadFile ==
    /\ nFiles < MaxFiles
    /\ ~Unwrap(parseOut).panic
    /\ \E count \in 1..MaxPerFile :
          /\ nFiles = 0 \/ count = MaxPerFile
          /\ fileIn' = Declarations(nFiles * MaxPerFile, count)
          /\ parseOut' = Some(parse_file(fileIn', nFiles, Unwrap(parseOut), debug_assertions))
    /\ nFiles' = nFiles + 1
    /\ UNCHANGED <<generateOut, debug_assertions, idmapVars, diagVars, evalVars, appVars,
                   reloadVars, tokenVars>>

NextLimit == LoadFile

SpecLimit == InitLimit /\ [][NextLimit]_vars

\* The registry and the diagnostics of the load so far.
LoadElements == Unwrap(parseOut).elements
LoadDiagnostics == Unwrap(parseOut).diagnostics

\* The declarations of the file just parsed, and how many of them the
\* registry had room for before.
DeclaredNow == CHOOSE count \in 1..MaxPerFile : fileIn' = Declarations(nFiles * MaxPerFile, count)
RoomBefore == U8_MAX - im_len(LoadElements)
AddedNow == IF DeclaredNow <= RoomBefore THEN DeclaredNow ELSE RoomBefore

\* C28: the registry parse_file builds from Element::create_map never holds
\* more than 255 entries, so every id fits the u8 ElementId; every further
\* declaration of a new name adds one Warn ElementLimitReached, leaves the
\* registry as it is and does not set has_errored().
C28_ElementLimit ==
    [][nFiles' = nFiles + 1 =>
          /\ im_len(LoadElements') = im_len(LoadElements) + AddedNow
          /\ im_len(LoadElements') <= U8_MAX
          /\ \A i \in 1..im_len(LoadElements') :
                /\ iter(LoadElements', "u8")[i][1] = i - 1
                /\ iter(LoadElements', "u8")[i][1] <= U8_MAX
          /\ RoomBefore = 0 => LoadElements' = LoadElements
          /\ Len(LoadDiagnostics'.diagnostics)
                = Len(LoadDiagnostics.diagnostics) + (DeclaredNow - AddedNow)
          /\ \A i \in 1..Len(LoadDiagnostics'.diagnostics) :
                /\ LoadDiagnostics'.diagnostics[i][2] = [kind |-> "ElementLimitReached"]
                /\ level(LoadDiagnostics'.diagnostics[i][2]) = "Warn"
                /\ IsSome(LoadDiagnostics'.diagnostics[i][1])
          /\ ~has_errored(LoadDiagnostics')
          /\ ~Unwrap(parseOut').panic]_vars

\* a file whose first declaration takes the last id and whose other two find
\* the registry full: 255 entries, two warnings of the file
C28_Witness ==
    /\ im_len(LoadElements) = U8_MAX
    /\ get_full(LoadElements, U8_MAX - 1) = Some(<<"e" \o Decimal((nFiles - 1) * MaxPerFile),
                                                   Element_default>>)
    /\ ~IsSome(get_full(LoadElements, U8_MAX))
    /\ Len(LoadDiagnostics.diagnostics) = 2
    /\ ~has_errored(LoadDiagnostics)

(***************************************************************************)
(* The tokenizer (io/parsing/tokenizer.rs): Tokenizer::next called on a    *)
(* text until it returns None.                                             *)
(***************************************************************************)

\* u8::is_ascii_whitespace
is_ascii_whitespace(ch) == ch \in {" ", "\t", "\n", "\f", "\r"}

\* tokenize : the whole code, at the top of the file
tokenize(code, file) == [code |-> code, position |-> [file |-> file, index |-> 0]]

\* the arms of `match first` that char_token! serves, and the token of each
char_token(first) ==
    CASE first = "\n" -> Some([kind |-> "Newline"])
      [] first = "{" -> Some([kind |-> "Bracket", ty |-> "Curvy", open |-> TRUE])
      [] first = "}" -> Some([kind |-> "Bracket", ty |-> "Curvy", open |-> FALSE])
      [] first = "=" -> Some([kind |-> "Operator", operator |-> "Assign"])
      [] first = "#" -> Some([kind |-> "Modifier", modifier |-> "HexColor"])
      [] OTHER -> None

\* Tokenizer::next from the code left after the leading whitespace, `skipped`
\* bytes of it: the item returned and the tokenizer left.  position.index is
\* a u32; the texts here are a few bytes long, far from where it wraps.
Tokenizer_next_token(self, code, skipped) ==
    LET pos == [self.position EXCEPT !.index = @ + skipped]
        literal_len == take_while(code, 0, [ch \in chars_of(code) |-> ~is_ascii_whitespace(ch)])
        literal == SubSeq(code, 1, literal_len)
    IN  IF code = ""
        THEN [ret |-> None, self |-> [code |-> code, position |-> pos]]
        ELSE IF IsSome(char_token(char_at(code, 0)))
        THEN [ret |-> Some(<<Unwrap(char_token(char_at(code, 0))), pos>>),
              self |-> [code |-> SubSeq(code, 2, Len(code)),
                        position |-> [pos EXCEPT !.index = @ + 1]]]
        ELSE [ret |-> Some(<<IF literal = "element"
                             THEN [kind |-> "Keyword", keyword |-> "Element"]
                             ELSE [kind |-> "Literal", literal |-> literal],
                             pos>>),
              self |-> [code |-> SubSeq(code, literal_len + 1, Len(code)),
                        position |-> [pos EXCEPT !.index = @ + literal_len]]]

\* <Tokenizer as Iterator>::next
Tokenizer_next(self) ==
    LET whitespace_len ==
            take_while(self.code, 0,
                       [ch \in chars_of(self.code) |-> is_ascii_whitespace(ch) /\ ch # "\n"])
    IN  Tokenizer_next_token(self, SubSeq(self.code, whitespace_len + 1, Len(self.code)),
                             whitespace_len)

\* The texts tokenized: every run of up to MaxPieces of these pieces
TokenPieces == {"{", "}", "=", "#", "a", "element", " ", "\n"}
MaxPieces == 3       \* pieces of a text

RECURSIVE PieceRuns(_)
PieceRuns(n) ==
    IF n = 0 THEN {""}
    ELSE PieceRuns(n - 1) \cup {t \o p : t \in PieceRuns(n - 1), p \in TokenPieces}

TokenTexts == PieceRuns(MaxPieces)

InitTokens ==
    /\ fileIn \in TokenTexts
    /\ generateOut = None
    /\ parseOut = None
    /\ nFiles = 0
    /\ tokenizer = tokenize(fileIn, 0)
    /\ tokens = <<>>
    /\ IdleIdMap
    /\ IdleDiag
    /\ IdleEval
    /\ IdleBuild
    /\ IdleApp
    /\ IdleReload

\* one call of Tokenizer::next, up to the call that returns None
NextToken ==
    /\ IF tokens = <<>> THEN TRUE ELSE IsSome(tokens[Len(tokens)])
    /\ tokenizer' = Tokenizer_next(tokenizer).self
    /\ tokens' = Append(tokens, Tokenizer_next(tokenizer).ret)
    /\ UNCHANGED <<fileIn, generateOut, parseOut, nFiles, debug_assertions, idmapVars,
                   diagVars, evalVars, appVars, reloadVars>>

NextTokens == NextToken

SpecTokens == InitTokens /\ [][NextTokens]_vars

\* Tokenizer::next has returned None
Tokenized == IF tokens = <<>> THEN FALSE ELSE ~IsSome(tokens[Len(tokens)])

\* the bytes that start a token of their own
MarkBytes == {"{", "}", "=", "#"}

\* the offsets of the text that hold such a byte
MarkOffsets == {q \in 0..(Len(fileIn) - 1) : char_at(fileIn, q) \in MarkBytes}

\* the tokens returned
TokensReturned == {Unwrap(tokens[i]) : i \in {j \in 1..Len(tokens) : IsSome(tokens[j])}}

\* C29: once the text is tokenized, every `{`, `}`, `=` and `#` of it was
\* returned as its own token, the Bracket, Operator(Assign) or
\* Modifier(HexColor) of that byte at the offset of that byte, and no Literal
\* returned holds one of these bytes, with or without whitespace around it.
C29_SingleCharTokens ==
    Tokenized =>
        /\ \A q \in MarkOffsets :
              <<Unwrap(char_token(char_at(fileIn, q))), [file |-> 0, index |-> q]>>
                  \in TokensReturned
        /\ \A t \in TokensReturned :
              t[1].kind = "Literal" =>
                  \A q \in 0..(Len(t[1].literal) - 1) : char_at(t[1].literal, q) \notin MarkBytes

\* `{a}` tokenized: the `{` that starts a token is a Bracket, the `}` glued
\* to the name is inside the Literal
C29_Witness ==
    /\ fileIn = "{a}"
    /\ tokens = <<Some(<<[kind |-> "Bracket", ty |-> "Curvy", open |-> TRUE],
                         [file |-> 0, index |-> 0]>>),
                  Some(<<[kind |-> "Literal", literal |-> "a}"], [file |-> 0, index |-> 1]>>),
                  None>>

====
